---- MODULE Spec2Model ----
(***************************************************************************)
(* Account pool of antigravity-claude-proxy: the rate-limit tracker        *)
(* (account-manager/rate-limits.js), the selector                          *)
(* (account-manager/selection.js) and the AccountManager facade that owns  *)
(* the account array, the rotation cursor and the settings.                *)
(*                                                                         *)
(* Time is counted in units of MAX_WAIT_BEFORE_ERROR_MS (two minutes).     *)
(* Every handler is synchronous and runs at one instant: each Date.now()   *)
(* of a handler reads the variable now.  Indices are 0-based as in the     *)
(* code; the account array is a TLA+ sequence, so index i is accounts[i+1].*)
(* The write-only fields lastUsed, markedAt, invalidReason and invalidAt   *)
(* are never read by any decision; of those only the lastUsed stamps are   *)
(* kept, as the set of accounts an operation stamped (last.stamped).       *)
(***************************************************************************)
EXTENDS Integers, Sequences, FiniteSets, TLC

VARIABLES accounts, currentIndex, settings, initialized, softLimitEnabled, now, last

vars == <<accounts, currentIndex, settings, initialized, softLimitEnabled, now, last>>

\* JavaScript null / undefined where a string or an object is expected.
NULL == "null"
\* JavaScript null where a number is expected (a separate value, because a
\* number and a string are not comparable here).
Nil == -999

(************************** bounds of the model ***************************)
\* Date.now() ranges over 1..MaxTime.
MaxTime == 2

\* The accounts the storage collaborator holds, in selection order.
Emails == <<"a", "b", "c">>

\* Reset times are capped: a mark that would set a later one is not taken.
MaxReset == MaxTime + 1

\* The only model id that is queried and limited; NULL is "no model given".
Models == {"m"}
ModelArgs == Models \cup {NULL}

(*************************** program constants ****************************)
MAX_WAIT_BEFORE_ERROR_MS == 1
DEFAULT_COOLDOWN_MS == 1

\* resetMs arguments of markRateLimited, and the cooldownDurationMs a
\* settings record may hold.
ResetMsArgs == {Nil, 0, 2}
CooldownSettings == {Nil}

\* ISO-8601 instants a quota probe reports, and what Date parses them to.
IsoArgs == {NULL}
\* Fractions are in tenths.  The default threshold, and the remainingFraction
\* values a quota probe reports (Nil: none reported).
SOFT_LIMIT_THRESHOLD == 2
FractionArgs == {Nil, 1, 2}
\* remainingFraction arguments of a direct markSoftLimited call.
MarkFractionArgs == {1}

(***************************** JavaScript ********************************)
\* ToNumber(null) is 0 in a comparison or a subtraction.
ToNumber(x) == IF x = Nil THEN 0 ELSE x
\* Truthiness of a number-or-null.
Truthy(x) == x # Nil /\ x # 0
\* a || b on numbers-or-null.
Or(a, b) == IF Truthy(a) THEN a ELSE b
\* new Date(iso).getTime()
DateGetTime(iso) == CASE iso = "T+2" -> 2
                      [] iso = "T+3" -> 3
                      [] OTHER -> 0

Min(S) == CHOOSE x \in S : \A y \in S : x <= y

(***************************** account data ******************************)
\* An account record.  modelRateLimits and modelSoftLimits are JavaScript
\* objects used as maps: functions whose domain is the set of keys present.
NewAccount(email) ==
    [email |-> email, isInvalid |-> FALSE,
     modelRateLimits |-> <<>>, modelSoftLimits |-> <<>>]

\* A hard-limit entry after a sweep or a reset.
ClearedLimit == [isRateLimited |-> FALSE, resetTime |-> Nil]

\* An account as an earlier run persisted it: its hard limits were set and
\* have been swept since.
PersistedAccount(email) ==
    [NewAccount(email) EXCEPT !.modelRateLimits = [m \in Models |-> ClearedLimit]]

HasKey(map, key) == key \in DOMAIN map
\* map[key] = value
SetKey(map, key, value) ==
    [k \in DOMAIN map \cup {key} |-> IF k = key THEN value ELSE map[k]]
\* delete map[key]
DeleteKey(map, key) == [k \in DOMAIN map \ {key} |-> map[k]]

\* accounts.find(a => a.email === email), as the 0-based index; -1 when absent.
FindIndex(accs, email) ==
    IF \E i \in 1..Len(accs) : accs[i].email = email
    THEN Min({i \in 1..Len(accs) : accs[i].email = email}) - 1
    ELSE -1

(************************ rate-limits.js: hard limits **********************)
\* limit && limit.isRateLimited && limit.resetTime > Date.now(), for the
\* entry of modelId in a modelRateLimits map.
\* Mutant: without a model id, a limit on any model counts.
HardLimited_AnyModel(acc, modelId, t) ==
    \E k \in DOMAIN acc.modelRateLimits :
        /\ modelId = NULL \/ k = modelId
        /\ acc.modelRateLimits[k].isRateLimited
        /\ ToNumber(acc.modelRateLimits[k].resetTime) > t

HardLimited(acc, modelId, t) ==
    /\ modelId # NULL
    /\ HasKey(acc.modelRateLimits, modelId)
    /\ acc.modelRateLimits[modelId].isRateLimited
    /\ ToNumber(acc.modelRateLimits[modelId].resetTime) > t

\* Mutant: an invalid account no longer counts as unavailable.
isAllRateLimited_IgnoresInvalid(accs, modelId, t) ==
    IF Len(accs) = 0 THEN TRUE
    ELSE IF modelId = NULL THEN FALSE
    ELSE \A i \in 1..Len(accs) : HardLimited(accs[i], modelId, t)

\* Mutant: the early return for a missing model id is lost.
isAllRateLimited_NoModelCheck(accs, modelId, t) ==
    IF Len(accs) = 0 THEN TRUE
    ELSE \A i \in 1..Len(accs) :
            accs[i].isInvalid \/ HardLimited(accs[i], modelId, t)

isAllRateLimited(accs, modelId, t) ==
    IF Len(accs) = 0 THEN TRUE
    ELSE IF modelId = NULL THEN FALSE
    ELSE \A i \in 1..Len(accs) :
            accs[i].isInvalid \/ HardLimited(accs[i], modelId, t)

\* The filter of getAvailableAccounts.
IsAvailable(acc, modelId, t) ==
    IF acc.isInvalid THEN FALSE
    ELSE IF HardLimited(acc, modelId, t) THEN FALSE
    ELSE TRUE

\* Mutant: a soft limit counts as a hard exclusion.
getAvailableAccounts_ExcludesSoftLimited(accs, modelId, t) ==
    SelectSeq(accs, LAMBDA acc :
        /\ IsAvailable(acc, modelId, t)
        /\ ~(/\ modelId # NULL
              /\ HasKey(acc.modelSoftLimits, modelId)
              /\ acc.modelSoftLimits[modelId].isSoftLimited))

getAvailableAccounts(accs, modelId, t) ==
    SelectSeq(accs, LAMBDA acc : IsAvailable(acc, modelId, t))

getInvalidAccounts(accs) == SelectSeq(accs, LAMBDA acc : acc.isInvalid)

\* Mutant: an entry that resets exactly now is not swept.
Expired_Strict(limit, t) == limit.isRateLimited /\ ToNumber(limit.resetTime) < t

\* One entry of the sweep: limit.isRateLimited && limit.resetTime <= now.
Expired(limit, t) == limit.isRateLimited /\ ToNumber(limit.resetTime) <= t

\* clearExpiredLimits mutates the accounts in place and returns the count.
clearExpiredLimits(accs, t) ==
    [accounts |->
        [i \in 1..Len(accs) |->
            [accs[i] EXCEPT !.modelRateLimits =
                [k \in DOMAIN accs[i].modelRateLimits |->
                    IF Expired(accs[i].modelRateLimits[k], t)
                    THEN ClearedLimit
                    ELSE accs[i].modelRateLimits[k]]]],
     cleared |->
        Cardinality({<<i, k>> \in (1..Len(accs)) \X Models :
            /\ HasKey(accs[i].modelRateLimits, k)
            /\ Expired(accs[i].modelRateLimits[k], t)})]

\* Mutant: the reset drops the flag of an entry and keeps its reset time.
resetAllRateLimits_KeepsResetTime(accs) ==
    [i \in 1..Len(accs) |->
        [accs[i] EXCEPT !.modelRateLimits =
            [k \in DOMAIN accs[i].modelRateLimits |->
                [accs[i].modelRateLimits[k] EXCEPT !.isRateLimited = FALSE]]]]

\* Mutant: the reset also clears the invalid flag.
resetAllRateLimits_ClearsInvalid(accs) ==
    [i \in 1..Len(accs) |->
        [accs[i] EXCEPT !.isInvalid = FALSE,
                        !.modelRateLimits =
                            [k \in DOMAIN accs[i].modelRateLimits |-> ClearedLimit]]]

resetAllRateLimits(accs) ==
    [i \in 1..Len(accs) |->
        [accs[i] EXCEPT !.modelRateLimits =
            [k \in DOMAIN accs[i].modelRateLimits |-> ClearedLimit]]]

\* Mutant: a resetMs or a configured cooldown of 0 is used as given.
markRateLimited_ZeroIsGiven(accs, email, resetMs, sett, modelId, t) ==
    LET idx == FindIndex(accs, email)
        cooldownMs == IF resetMs # Nil THEN resetMs
                      ELSE IF sett.cooldownDurationMs # Nil
                      THEN sett.cooldownDurationMs
                      ELSE DEFAULT_COOLDOWN_MS
    IN  IF idx = -1 THEN [accounts |-> accs, found |-> FALSE]
        ELSE [accounts |->
                [accs EXCEPT ![idx + 1].modelRateLimits =
                    SetKey(@, modelId,
                           [isRateLimited |-> TRUE, resetTime |-> t + cooldownMs])],
              found |-> TRUE]

\* markRateLimited returns whether the email was found.
\* Mutant: the cooldown is stored as the reset time, not added to the clock.
markRateLimited_NoDateNow(accs, email, resetMs, sett, modelId, t) ==
    LET idx == FindIndex(accs, email)
        cooldownMs == Or(Or(resetMs, sett.cooldownDurationMs), DEFAULT_COOLDOWN_MS)
    IN  IF idx = -1 THEN [accounts |-> accs, found |-> FALSE]
        ELSE [accounts |->
                [accs EXCEPT ![idx + 1].modelRateLimits =
                    SetKey(@, modelId,
                           [isRateLimited |-> TRUE, resetTime |-> cooldownMs])],
              found |-> TRUE]

markRateLimited(accs, email, resetMs, sett, modelId, t) ==
    LET idx == FindIndex(accs, email)
        cooldownMs == Or(Or(resetMs, sett.cooldownDurationMs), DEFAULT_COOLDOWN_MS)
        resetTime == t + cooldownMs
    IN  IF idx = -1 THEN [accounts |-> accs, found |-> FALSE]
        ELSE [accounts |->
                [accs EXCEPT ![idx + 1].modelRateLimits =
                    SetKey(@, modelId,
                           [isRateLimited |-> TRUE, resetTime |-> resetTime])],
              found |-> TRUE]

\* Mutant: success is reported without looking the email up.
markInvalid_AlwaysTrue(accs, email) ==
    LET idx == FindIndex(accs, email)
    IN  IF idx = -1 THEN [accounts |-> accs, found |-> TRUE]
        ELSE [accounts |-> [accs EXCEPT ![idx + 1].isInvalid = TRUE],
              found |-> TRUE]

markInvalid(accs, email) ==
    LET idx == FindIndex(accs, email)
    IN  IF idx = -1 THEN [accounts |-> accs, found |-> FALSE]
        ELSE [accounts |-> [accs EXCEPT ![idx + 1].isInvalid = TRUE],
              found |-> TRUE]

\* Mutant: the longest positive wait is kept instead of the shortest.
getMinWaitTimeMs_Longest(accs, modelId, t) ==
    IF ~isAllRateLimited(accs, modelId, t) THEN 0
    ELSE LET waits == {ToNumber(accs[i].modelRateLimits[modelId].resetTime) - t :
                        i \in {j \in 1..Len(accs) :
                                /\ modelId # NULL
                                /\ HasKey(accs[j].modelRateLimits, modelId)
                                /\ accs[j].modelRateLimits[modelId].isRateLimited
                                /\ Truthy(accs[j].modelRateLimits[modelId].resetTime)}}
             positive == {w \in waits : w > 0}
         IN  IF positive = {} THEN DEFAULT_COOLDOWN_MS
             ELSE CHOOSE w \in positive : \A v \in positive : v <= w

getMinWaitTimeMs(accs, modelId, t) ==
    IF ~isAllRateLimited(accs, modelId, t) THEN 0
    ELSE LET waits == {ToNumber(accs[i].modelRateLimits[modelId].resetTime) - t :
                        i \in {j \in 1..Len(accs) :
                                /\ modelId # NULL
                                /\ HasKey(accs[j].modelRateLimits, modelId)
                                /\ accs[j].modelRateLimits[modelId].isRateLimited
                                /\ Truthy(accs[j].modelRateLimits[modelId].resetTime)}}
             positive == {w \in waits : w > 0}
         IN  IF positive = {} THEN DEFAULT_COOLDOWN_MS ELSE Min(positive)

(************************ rate-limits.js: soft limits **********************)
isSoftLimited(acc, modelId, t) ==
    IF modelId = NULL THEN FALSE
    ELSE IF ~HasKey(acc.modelSoftLimits, modelId) THEN FALSE
    ELSE IF ~acc.modelSoftLimits[modelId].isSoftLimited THEN FALSE
    ELSE IF /\ Truthy(acc.modelSoftLimits[modelId].resetTime)
            /\ acc.modelSoftLimits[modelId].resetTime <= t THEN FALSE
    ELSE TRUE

\* The filter of getPreferredAccounts.
IsPreferred(acc, modelId, t) ==
    IF acc.isInvalid THEN FALSE
    ELSE IF HardLimited(acc, modelId, t) THEN FALSE
    ELSE IF modelId # NULL /\ isSoftLimited(acc, modelId, t) THEN FALSE
    ELSE TRUE

\* Mutant: the soft-limit check of the filter is lost.
getPreferredAccounts_IgnoresSoftLimit(accs, modelId, t) ==
    SelectSeq(accs, LAMBDA acc : IsAvailable(acc, modelId, t))

getPreferredAccounts(accs, modelId, t) ==
    SelectSeq(accs, LAMBDA acc : IsPreferred(acc, modelId, t))

isAllSoftLimited(accs, modelId, t) ==
    IF Len(accs) = 0 THEN TRUE
    ELSE IF modelId = NULL THEN FALSE
    ELSE LET available == getAvailableAccounts(accs, modelId, t)
         IN  IF Len(available) = 0 THEN FALSE
             ELSE \A i \in 1..Len(available) :
                    isSoftLimited(available[i], modelId, t)

markSoftLimited(accs, email, modelId, remainingFraction, resetTimeIso) ==
    LET idx == FindIndex(accs, email)
        resetMs == IF resetTimeIso # NULL THEN DateGetTime(resetTimeIso) ELSE Nil
    IN  IF idx = -1 THEN [accounts |-> accs, found |-> FALSE]
        ELSE [accounts |->
                [accs EXCEPT ![idx + 1].modelSoftLimits =
                    SetKey(@, modelId,
                           [isSoftLimited |-> TRUE,
                            remainingFraction |-> remainingFraction,
                            resetTime |-> resetMs])],
              found |-> TRUE]

clearSoftLimit(accs, email, modelId) ==
    LET idx == FindIndex(accs, email)
    IN  IF idx = -1 \/ ~HasKey(accs[idx + 1].modelSoftLimits, modelId)
        THEN [accounts |-> accs, found |-> FALSE]
        ELSE [accounts |->
                [accs EXCEPT ![idx + 1].modelSoftLimits = DeleteKey(@, modelId)],
              found |-> TRUE]

\* One entry of the soft sweep.
SoftExpired(limit, t) ==
    limit.isSoftLimited /\ Truthy(limit.resetTime) /\ limit.resetTime <= t

clearExpiredSoftLimits(accs, t) ==
    [accounts |->
        [i \in 1..Len(accs) |->
            [accs[i] EXCEPT !.modelSoftLimits =
                [k \in {j \in DOMAIN accs[i].modelSoftLimits :
                            ~SoftExpired(accs[i].modelSoftLimits[j], t)} |->
                    accs[i].modelSoftLimits[k]]]],
     cleared |->
        Cardinality({<<i, k>> \in (1..Len(accs)) \X Models :
            /\ HasKey(accs[i].modelSoftLimits, k)
            /\ SoftExpired(accs[i].modelSoftLimits[k], t)})]

updateSoftLimitStatus(accs, email, modelId, remainingFraction, resetTimeIso, threshold, t) ==
    LET idx == FindIndex(accs, email)
        wasSoftLimited == isSoftLimited(accs[idx + 1], modelId, t)
        shouldBeSoftLimited ==
            /\ remainingFraction # Nil
            /\ remainingFraction < threshold
            /\ remainingFraction >= 0
    IN  IF idx = -1
        THEN [accounts |-> accs, changed |-> FALSE, isSoftLimited |-> FALSE]
        ELSE IF shouldBeSoftLimited /\ ~wasSoftLimited
        THEN [accounts |-> markSoftLimited(accs, email, modelId,
                                           remainingFraction, resetTimeIso).accounts,
              changed |-> TRUE, isSoftLimited |-> TRUE]
        ELSE IF ~shouldBeSoftLimited /\ wasSoftLimited
        THEN [accounts |-> clearSoftLimit(accs, email, modelId).accounts,
              changed |-> TRUE, isSoftLimited |-> FALSE]
        ELSE [accounts |-> accs, changed |-> FALSE, isSoftLimited |-> wasSoftLimited]

(****************************** selection.js ******************************)
\* accounts[idx]: undefined outside the array.
Undefined == <<>>
At(accs, idx) == IF idx \in 0..(Len(accs) - 1) THEN accs[idx + 1] ELSE Undefined

\* Mutant: the isInvalid check is lost.
isAccountUsable_IgnoresInvalid(account, modelId, t) ==
    IF account = Undefined THEN FALSE
    ELSE IF HardLimited(account, modelId, t) THEN FALSE
    ELSE TRUE

\* Mutant: a soft-limited account is not usable.
isAccountUsable_RejectsSoftLimited(account, modelId, t) ==
    IF account = Undefined \/ account.isInvalid THEN FALSE
    ELSE IF HardLimited(account, modelId, t) THEN FALSE
    ELSE ~isSoftLimited(account, modelId, t)

isAccountUsable(account, modelId, t) ==
    IF account = Undefined \/ account.isInvalid THEN FALSE
    ELSE IF HardLimited(account, modelId, t) THEN FALSE
    ELSE TRUE

\* Mutant: the soft-limit check is lost.
isAccountPreferred_IgnoresSoftLimit(account, modelId, t) ==
    isAccountUsable(account, modelId, t)

isAccountPreferred(account, modelId, t) ==
    IF ~isAccountUsable(account, modelId, t) THEN FALSE
    ELSE IF modelId = NULL THEN TRUE
    ELSE ~isSoftLimited(account, modelId, t)

\* The sweeps every selection starts with.
Sweep(accs, t) ==
    clearExpiredSoftLimits(clearExpiredLimits(accs, t).accounts, t).accounts

\* Whether the sweeps cleared anything.
SweepCount(accs, t) ==
    clearExpiredLimits(accs, t).cleared
        + clearExpiredSoftLimits(clearExpiredLimits(accs, t).accounts, t).cleared

\* Clamp index to valid range.
Clamp(accs, idx) == IF idx >= Len(accs) THEN 0 ELSE idx

\* Mutant: the scan starts at index 0 instead of after the cursor.
ScanPreferred_LowestIndex(accs, index, i, modelId, t) ==
    IF \E k \in 0..(Len(accs) - 1) : isAccountPreferred(At(accs, k), modelId, t)
    THEN Min({k \in 0..(Len(accs) - 1) : isAccountPreferred(At(accs, k), modelId, t)})
    ELSE -1

\* for (let i = 1; i <= accounts.length; i++) { idx = (index + i) % length;
\*   if (isAccountPreferred(accounts[idx], modelId)) return idx }   -1: none.
RECURSIVE ScanPreferred(_, _, _, _, _)
ScanPreferred(accs, index, i, modelId, t) ==
    IF i > Len(accs) THEN -1
    ELSE IF isAccountPreferred(At(accs, (index + i) % Len(accs)), modelId, t)
         THEN (index + i) % Len(accs)
         ELSE ScanPreferred(accs, index, i + 1, modelId, t)

\* Mutant: the scan starts at index 0 instead of after the cursor.
ScanUsable_LowestIndex(accs, index, i, modelId, t) ==
    IF \E k \in 0..(Len(accs) - 1) : isAccountUsable(At(accs, k), modelId, t)
    THEN Min({k \in 0..(Len(accs) - 1) : isAccountUsable(At(accs, k), modelId, t)})
    ELSE -1

\* The same loop with isAccountUsable.
RECURSIVE ScanUsable(_, _, _, _, _)
ScanUsable(accs, index, i, modelId, t) ==
    IF i > Len(accs) THEN -1
    ELSE IF isAccountUsable(At(accs, (index + i) % Len(accs)), modelId, t)
         THEN (index + i) % Len(accs)
         ELSE ScanUsable(accs, index, i + 1, modelId, t)

\* A selection's outcome: the array after the sweeps, the email of the
\* returned account (NULL: none), the new index, the accounts whose lastUsed
\* was stamped and the number of onSave() calls.
Outcome(accs, account, newIndex, stamped, saves) ==
    [accounts |-> accs, account |-> account, waitMs |-> 0, newIndex |-> newIndex,
     isSoftLimited |-> FALSE, stamped |-> stamped, saves |-> saves]

\* The return of a scan that found idx.
Found(accs, idx) == Outcome(accs, accs[idx + 1].email, idx, {accs[idx + 1].email}, 1)

\* Mutant: the preferred scan runs whether or not soft limiting is enabled.
pickNext_AlwaysPrefers(accs0, curIndex, modelId, softEnabled, t) ==
    LET accs == Sweep(accs0, t)
        available == getAvailableAccounts(accs, modelId, t)
        index == Clamp(accs, curIndex)
        preferred == getPreferredAccounts(accs, modelId, t)
        p == ScanPreferred(accs, index, 1, modelId, t)
        u == ScanUsable(accs, index, 1, modelId, t)
    IN  IF Len(available) = 0 THEN Outcome(accs, NULL, curIndex, {}, 0)
        ELSE IF modelId # NULL /\ Len(preferred) > 0 /\ p # -1
        THEN Found(accs, p)
        ELSE IF u # -1 THEN Found(accs, u)
        ELSE Outcome(accs, NULL, curIndex, {}, 0)

\* Mutant: the account found is returned with the cursor that was given.
pickNext_KeepsCursor(accs0, curIndex, modelId, softEnabled, t) ==
    LET accs == Sweep(accs0, t)
        available == getAvailableAccounts(accs, modelId, t)
        index == Clamp(accs, curIndex)
        preferred == getPreferredAccounts(accs, modelId, t)
        p == ScanPreferred(accs, index, 1, modelId, t)
        u == ScanUsable(accs, index, 1, modelId, t)
    IN  IF Len(available) = 0 THEN Outcome(accs, NULL, curIndex, {}, 0)
        ELSE IF softEnabled /\ modelId # NULL /\ Len(preferred) > 0 /\ p # -1
        THEN [Found(accs, p) EXCEPT !.newIndex = curIndex]
        ELSE IF u # -1 THEN [Found(accs, u) EXCEPT !.newIndex = curIndex]
        ELSE Outcome(accs, NULL, curIndex, {}, 0)

pickNext(accs0, curIndex, modelId, softEnabled, t) ==
    LET accs == Sweep(accs0, t)
        available == getAvailableAccounts(accs, modelId, t)
        index == Clamp(accs, curIndex)
        preferred == getPreferredAccounts(accs, modelId, t)
        p == ScanPreferred(accs, index, 1, modelId, t)
        u == ScanUsable(accs, index, 1, modelId, t)
    IN  IF Len(available) = 0 THEN Outcome(accs, NULL, curIndex, {}, 0)
        ELSE IF softEnabled /\ modelId # NULL /\ Len(preferred) > 0 /\ p # -1
        THEN Found(accs, p)
        ELSE IF u # -1 THEN Found(accs, u)
        ELSE Outcome(accs, NULL, curIndex, {}, 0)

getCurrentStickyAccount(accs0, curIndex, modelId, t) ==
    LET accs == Sweep(accs0, t)
        index == Clamp(accs, curIndex)
        account == At(accs, index)
    IN  IF Len(accs) = 0 THEN Outcome(accs, NULL, curIndex, {}, 0)
        ELSE IF isAccountUsable(account, modelId, t)
        THEN [Outcome(accs, account.email, index, {account.email}, 1)
                EXCEPT !.isSoftLimited =
                    IF modelId # NULL THEN isSoftLimited(account, modelId, t)
                    ELSE FALSE]
        ELSE Outcome(accs, NULL, index, {}, 0)

\* Mutant: a wait equal to the ceiling is not waited for.
WithinWaitThreshold_Strict(waitMs) ==
    waitMs > 0 /\ waitMs < MAX_WAIT_BEFORE_ERROR_MS

\* waitMs > 0 && waitMs <= MAX_WAIT_BEFORE_ERROR_MS
WithinWaitThreshold(waitMs) ==
    waitMs > 0 /\ waitMs <= MAX_WAIT_BEFORE_ERROR_MS

shouldWaitForCurrentAccount(accs, curIndex, modelId, t) ==
    LET index == Clamp(accs, curIndex)
        account == At(accs, index)
        waitMs == IF /\ modelId # NULL
                     /\ HasKey(account.modelRateLimits, modelId)
                     /\ account.modelRateLimits[modelId].isRateLimited
                     /\ Truthy(account.modelRateLimits[modelId].resetTime)
                  THEN account.modelRateLimits[modelId].resetTime - t
                  ELSE 0
    IN  IF Len(accs) = 0 THEN [shouldWait |-> FALSE, waitMs |-> 0, account |-> NULL]
        ELSE IF account = Undefined \/ account.isInvalid
        THEN [shouldWait |-> FALSE, waitMs |-> 0, account |-> NULL]
        ELSE IF WithinWaitThreshold(waitMs)
        THEN [shouldWait |-> TRUE, waitMs |-> waitMs, account |-> account.email]
        ELSE [shouldWait |-> FALSE, waitMs |-> 0, account |-> account.email]

\* The outcome of call `second`, made after call `first` already stamped and
\* saved: the stamps and saves of both.
After(first, second) ==
    [second EXCEPT !.stamped = first.stamped \cup @, !.saves = first.saves + @]

\* Mutant: the switch away from a soft-limited sticky account returns the
\* preferred account with the sticky account's index.
pickStickyAccount_SwitchKeepsIndex(accs0, curIndex, modelId, softEnabled, t) ==
    LET sticky == getCurrentStickyAccount(accs0, curIndex, modelId, t)
        accs == sticky.accounts
        preferred == getPreferredAccounts(accs, modelId, t)
        switch == pickNext(accs, curIndex, modelId, TRUE, t)
        available == getAvailableAccounts(accs, modelId, t)
        failover == pickNext(accs, curIndex, modelId, softEnabled, t)
        waitInfo == shouldWaitForCurrentAccount(accs, curIndex, modelId, t)
    IN  IF sticky.account # NULL
        THEN IF /\ softEnabled /\ sticky.isSoftLimited /\ modelId # NULL
                /\ Len(preferred) > 0
                /\ switch.account # NULL /\ switch.account # sticky.account
             THEN [After(sticky, switch) EXCEPT !.newIndex = sticky.newIndex]
             ELSE IF /\ softEnabled /\ sticky.isSoftLimited /\ modelId # NULL
                     /\ Len(preferred) > 0
                  THEN [After(switch, sticky) EXCEPT !.isSoftLimited = FALSE]
                  ELSE [sticky EXCEPT !.isSoftLimited = FALSE]
        ELSE IF Len(available) > 0 /\ failover.account # NULL
        THEN failover
        ELSE IF waitInfo.shouldWait
        THEN [Outcome(accs, NULL, curIndex, {}, 0) EXCEPT !.waitMs = waitInfo.waitMs]
        ELSE failover

\* Mutant: with no usable sticky account the call waits or gives up, and
\* never fails over to another account.
pickStickyAccount_NoFailover(accs0, curIndex, modelId, softEnabled, t) ==
    LET sticky == getCurrentStickyAccount(accs0, curIndex, modelId, t)
        accs == sticky.accounts
        preferred == getPreferredAccounts(accs, modelId, t)
        switch == pickNext(accs, curIndex, modelId, TRUE, t)
        waitInfo == shouldWaitForCurrentAccount(accs, curIndex, modelId, t)
    IN  IF sticky.account # NULL
        THEN IF /\ softEnabled /\ sticky.isSoftLimited /\ modelId # NULL
                /\ Len(preferred) > 0
                /\ switch.account # NULL /\ switch.account # sticky.account
             THEN After(sticky, switch)
             ELSE IF /\ softEnabled /\ sticky.isSoftLimited /\ modelId # NULL
                     /\ Len(preferred) > 0
                  THEN [After(switch, sticky) EXCEPT !.isSoftLimited = FALSE]
                  ELSE [sticky EXCEPT !.isSoftLimited = FALSE]
        ELSE IF waitInfo.shouldWait
        THEN [Outcome(accs, NULL, curIndex, {}, 0) EXCEPT !.waitMs = waitInfo.waitMs]
        ELSE Outcome(accs, NULL, curIndex, {}, 0)

pickStickyAccount(accs0, curIndex, modelId, softEnabled, t) ==
    LET sticky == getCurrentStickyAccount(accs0, curIndex, modelId, t)
        accs == sticky.accounts
        preferred == getPreferredAccounts(accs, modelId, t)
        switch == pickNext(accs, curIndex, modelId, TRUE, t)
        available == getAvailableAccounts(accs, modelId, t)
        failover == pickNext(accs, curIndex, modelId, softEnabled, t)
        waitInfo == shouldWaitForCurrentAccount(accs, curIndex, modelId, t)
    IN  IF sticky.account # NULL
        THEN IF /\ softEnabled /\ sticky.isSoftLimited /\ modelId # NULL
                /\ Len(preferred) > 0
                /\ switch.account # NULL /\ switch.account # sticky.account
             THEN After(sticky, switch)
             ELSE IF /\ softEnabled /\ sticky.isSoftLimited /\ modelId # NULL
                     /\ Len(preferred) > 0
                  THEN [After(switch, sticky) EXCEPT !.isSoftLimited = FALSE]
                  ELSE [sticky EXCEPT !.isSoftLimited = FALSE]
        ELSE IF Len(available) > 0 /\ failover.account # NULL
        THEN failover
        ELSE IF waitInfo.shouldWait
        THEN [Outcome(accs, NULL, curIndex, {}, 0) EXCEPT !.waitMs = waitInfo.waitMs]
        ELSE failover

(***************************** AccountManager *****************************)
\* What storage.loadAccounts may return: the configured accounts (none, or
\* the accounts of Emails as persisted), the settings and the active index;
\* and what loadDefaultAccount may return when none is configured (none, or
\* one new account).
StoredPools == {<<>>, [i \in 1..Len(Emails) |-> PersistedAccount(Emails[i])]}
DefaultPools == {<<>>, <<NewAccount(Emails[1])>>}
StoredSettings == [cooldownDurationMs : CooldownSettings]
StoredIndices == 0..Len(Emails)

\* Email arguments.
EmailArgs == {Emails[i] : i \in 1..Len(Emails)}

\* The record of the last operation: its name, the model id and the cursor
\* it was given, and what it returned and did.
Result(op, modelId, index, account, waitMs, stamped, saves) ==
    [op |-> op, modelId |-> modelId, index |-> index, account |-> account,
     waitMs |-> waitMs, stamped |-> stamped, saves |-> saves]

NoResult == Result("none", NULL, 0, NULL, 0, {}, 0)

Selected(op, modelId, r) ==
    Result(op, modelId, currentIndex, r.account, r.waitMs, r.stamped, r.saves)

Init ==
    /\ accounts = <<>>
    /\ currentIndex = 0
    /\ settings = [cooldownDurationMs |-> Nil]
    /\ initialized = FALSE
    /\ softLimitEnabled = TRUE
    /\ now = 1
    /\ last = NoResult

\* AccountManager.clearExpiredLimits: both sweeps, a save when one cleared.
ManagerClearExpired(accs, t) ==
    [accounts |-> Sweep(accs, t),
     cleared |-> SweepCount(accs, t),
     saves |-> IF SweepCount(accs, t) > 0 THEN 1 ELSE 0]

Initialize ==
    /\ ~initialized
    /\ \E stored \in StoredPools, sett \in StoredSettings,
          activeIndex \in StoredIndices, fallback \in DefaultPools :
        LET loaded == IF Len(stored) = 0 THEN fallback ELSE stored
            swept == ManagerClearExpired(loaded, now)
        IN  /\ accounts' = swept.accounts
            /\ settings' = sett
            /\ currentIndex' = activeIndex
    /\ initialized' = TRUE
    /\ last' = NoResult
    /\ UNCHANGED <<softLimitEnabled, now>>

SetSoftLimitEnabled ==
    \E enabled \in BOOLEAN :
        /\ softLimitEnabled' = enabled
        /\ last' = NoResult
        /\ UNCHANGED <<accounts, currentIndex, settings, initialized, now>>

ClearExpiredLimits ==
    /\ accounts' = ManagerClearExpired(accounts, now).accounts
    /\ last' = NoResult
    /\ UNCHANGED <<currentIndex, settings, initialized, softLimitEnabled, now>>

ResetAllRateLimits ==
    /\ accounts' = resetAllRateLimits(accounts)
    /\ last' = NoResult
    /\ UNCHANGED <<currentIndex, settings, initialized, softLimitEnabled, now>>

PickNext ==
    \E modelId \in ModelArgs :
        LET r == pickNext(accounts, currentIndex, modelId, softLimitEnabled, now)
        IN  /\ accounts' = r.accounts
            /\ currentIndex' = r.newIndex
            /\ last' = Selected("pickNext", modelId, r)
            /\ UNCHANGED <<settings, initialized, softLimitEnabled, now>>

GetCurrentStickyAccount ==
    \E modelId \in ModelArgs :
        LET r == getCurrentStickyAccount(accounts, currentIndex, modelId, now)
        IN  /\ accounts' = r.accounts
            /\ currentIndex' = r.newIndex
            /\ last' = Selected("getCurrentStickyAccount", modelId, r)
            /\ UNCHANGED <<settings, initialized, softLimitEnabled, now>>

PickStickyAccount ==
    \E modelId \in ModelArgs :
        LET r == pickStickyAccount(accounts, currentIndex, modelId,
                                   softLimitEnabled, now)
        IN  /\ accounts' = r.accounts
            /\ currentIndex' = r.newIndex
            /\ last' = Selected("pickStickyAccount", modelId, r)
            /\ UNCHANGED <<settings, initialized, softLimitEnabled, now>>

MarkRateLimited ==
    \E email \in EmailArgs, resetMs \in ResetMsArgs, modelId \in Models :
        /\ now + Or(Or(resetMs, settings.cooldownDurationMs),
                    DEFAULT_COOLDOWN_MS) <= MaxReset
        /\ accounts' = markRateLimited(accounts, email, resetMs, settings,
                                       modelId, now).accounts
        /\ last' = NoResult
        /\ UNCHANGED <<currentIndex, settings, initialized, softLimitEnabled, now>>

MarkInvalid ==
    \E email \in EmailArgs :
        /\ accounts' = markInvalid(accounts, email).accounts
        /\ last' = NoResult
        /\ UNCHANGED <<currentIndex, settings, initialized, softLimitEnabled, now>>

MarkSoftLimited ==
    \E email \in EmailArgs, modelId \in Models,
       fraction \in MarkFractionArgs, iso \in IsoArgs :
        /\ accounts' = markSoftLimited(accounts, email, modelId, fraction,
                                       iso).accounts
        /\ last' = NoResult
        /\ UNCHANGED <<currentIndex, settings, initialized, softLimitEnabled, now>>

ClearSoftLimit ==
    \E email \in EmailArgs, modelId \in Models :
        /\ accounts' = clearSoftLimit(accounts, email, modelId).accounts
        /\ last' = NoResult
        /\ UNCHANGED <<currentIndex, settings, initialized, softLimitEnabled, now>>

UpdateSoftLimitStatus ==
    \E email \in EmailArgs, modelId \in Models,
       fraction \in FractionArgs, iso \in IsoArgs :
        /\ accounts' = updateSoftLimitStatus(accounts, email, modelId, fraction,
                                             iso, SOFT_LIMIT_THRESHOLD, now).accounts
        /\ last' = NoResult
        /\ UNCHANGED <<currentIndex, settings, initialized, softLimitEnabled, now>>

\* Time passes between two operations.
Tick ==
    /\ now < MaxTime
    /\ now' = now + 1
    /\ last' = NoResult
    /\ UNCHANGED <<accounts, currentIndex, settings, initialized, softLimitEnabled>>

Next ==
    \/ Initialize
    \/ SetSoftLimitEnabled
    \/ ClearExpiredLimits
    \/ ResetAllRateLimits
    \/ PickNext
    \/ GetCurrentStickyAccount
    \/ PickStickyAccount
    \/ MarkRateLimited
    \/ MarkInvalid
    \/ MarkSoftLimited
    \/ ClearSoftLimit
    \/ UpdateSoftLimitStatus
    \/ Tick

Spec == Init /\ [][Next]_vars

(****************** rate-limits.js applied to drawn pools *****************)
\* The functions of rate-limits.js, and the selections with them, applied
\* once to a pool drawn from every shape an account can take: invalid or
\* not, the hard-limit entry absent, cleared or set (already expired or not),
\* the soft-limit entry absent or set (without a reset time, or with one that
\* has passed or not).
LimitEmails == <<"a", "b">>
LimitEmailArgs == {LimitEmails[i] : i \in 1..Len(LimitEmails)}

\* ISO instants a quota probe reports here: none, or the instant 2.
LimitIsoArgs == {NULL, "T+2"}
\* remainingFraction values: none, negative, zero, below and at the threshold.
LimitFractionArgs == {Nil, -1, 0, SOFT_LIMIT_THRESHOLD - 1, SOFT_LIMIT_THRESHOLD}
\* resetMs arguments and cooldownDurationMs settings.
LimitResetMsArgs == {Nil, 0, 1, 2}
LimitCooldownSettings == {Nil, 0, 2}

HardEntries ==
    {<<>>, [m \in Models |-> ClearedLimit]}
        \cup {[m \in Models |-> [isRateLimited |-> TRUE, resetTime |-> r]] :
                r \in 2..MaxReset}

SoftEntries ==
    {<<>>}
        \cup {[m \in Models |->
                [isSoftLimited |-> TRUE, remainingFraction |-> 1,
                 resetTime |-> IF iso # NULL THEN DateGetTime(iso) ELSE Nil]] :
                iso \in LimitIsoArgs}

DrawnAccounts(email) ==
    {[email |-> email, isInvalid |-> inv,
      modelRateLimits |-> h, modelSoftLimits |-> s] :
        inv \in BOOLEAN, h \in HardEntries, s \in SoftEntries}

DrawnPools ==
    {<<>>}
        \cup {<<x>> : x \in DrawnAccounts(LimitEmails[1])}
        \cup {<<x, y>> : x \in DrawnAccounts(LimitEmails[1]),
                         y \in DrawnAccounts(LimitEmails[2])}

LimitsInit ==
    /\ accounts \in DrawnPools
    /\ currentIndex \in 0..(Len(LimitEmails) - 1)
    /\ settings \in [cooldownDurationMs : LimitCooldownSettings]
    /\ initialized = TRUE
    /\ softLimitEnabled \in BOOLEAN
    /\ now \in 1..MaxTime
    /\ last = NoResult

\* The record of a direct call: its name, the model id, the other arguments
\* and the value returned.
Call(op, modelId, args, result) ==
    [op |-> op, modelId |-> modelId, args |-> args, result |-> result]

\* No operation has been applied to the drawn pool yet.
Fresh == last = NoResult

\* The emails of a sequence of accounts.
EmailsOf(accs) == [i \in 1..Len(accs) |-> accs[i].email]

CallIsAllRateLimited ==
    /\ Fresh
    /\ \E modelId \in ModelArgs :
        last' = Call("isAllRateLimited", modelId, <<>>,
                     isAllRateLimited(accounts, modelId, now))
    /\ UNCHANGED <<accounts, currentIndex, settings, initialized,
                   softLimitEnabled, now>>

CallGetAvailableAccounts ==
    /\ Fresh
    /\ \E modelId \in ModelArgs :
        last' = Call("getAvailableAccounts", modelId, <<>>,
                     EmailsOf(getAvailableAccounts(accounts, modelId, now)))
    /\ UNCHANGED <<accounts, currentIndex, settings, initialized,
                   softLimitEnabled, now>>

CallGetPreferredAccounts ==
    /\ Fresh
    /\ \E modelId \in ModelArgs :
        last' = Call("getPreferredAccounts", modelId, <<>>,
                     EmailsOf(getPreferredAccounts(accounts, modelId, now)))
    /\ UNCHANGED <<accounts, currentIndex, settings, initialized,
                   softLimitEnabled, now>>

\* AccountManager.isSoftLimited(email, modelId): false for an unknown email.
CallIsSoftLimited ==
    /\ Fresh
    /\ \E email \in LimitEmailArgs, modelId \in ModelArgs :
        last' = Call("isSoftLimited", modelId, [email |-> email],
                     IF FindIndex(accounts, email) = -1 THEN FALSE
                     ELSE isSoftLimited(accounts[FindIndex(accounts, email) + 1],
                                        modelId, now))
    /\ UNCHANGED <<accounts, currentIndex, settings, initialized,
                   softLimitEnabled, now>>

CallShouldWaitForCurrentAccount ==
    /\ Fresh
    /\ \E modelId \in ModelArgs :
        last' = Call("shouldWaitForCurrentAccount", modelId,
                     [index |-> currentIndex],
                     shouldWaitForCurrentAccount(accounts, currentIndex,
                                                 modelId, now))
    /\ UNCHANGED <<accounts, currentIndex, settings, initialized,
                   softLimitEnabled, now>>

CallGetMinWaitTimeMs ==
    /\ Fresh
    /\ \E modelId \in ModelArgs :
        last' = Call("getMinWaitTimeMs", modelId, <<>>,
                     getMinWaitTimeMs(accounts, modelId, now))
    /\ UNCHANGED <<accounts, currentIndex, settings, initialized,
                   softLimitEnabled, now>>

\* The wait getMinWaitTimeMs returned elapses, with no operation meanwhile.
Elapse ==
    /\ last.op = "getMinWaitTimeMs"
    /\ last.result > 0
    /\ now' = now + last.result
    /\ last' = Call("elapsed", last.modelId, <<>>, last.result)
    /\ UNCHANGED <<accounts, currentIndex, settings, initialized, softLimitEnabled>>

CallMarkRateLimited ==
    /\ Fresh
    /\ \E email \in LimitEmailArgs, resetMs \in LimitResetMsArgs, modelId \in Models :
        LET r == markRateLimited(accounts, email, resetMs, settings, modelId, now)
        IN  /\ accounts' = r.accounts
            /\ last' = Call("markRateLimited", modelId,
                            [email |-> email, resetMs |-> resetMs,
                             before |-> accounts], r.found)
    /\ UNCHANGED <<currentIndex, settings, initialized, softLimitEnabled, now>>

CallUpdateSoftLimitStatus ==
    /\ Fresh
    /\ \E email \in LimitEmailArgs, modelId \in Models,
          fraction \in LimitFractionArgs, iso \in LimitIsoArgs :
        LET r == updateSoftLimitStatus(accounts, email, modelId, fraction, iso,
                                       SOFT_LIMIT_THRESHOLD, now)
        IN  /\ accounts' = r.accounts
            /\ last' = Call("updateSoftLimitStatus", modelId,
                            [email |-> email, fraction |-> fraction, iso |-> iso,
                             calls |-> 1, before |-> accounts],
                            [changed |-> r.changed, isSoftLimited |-> r.isSoftLimited])
    /\ UNCHANGED <<currentIndex, settings, initialized, softLimitEnabled, now>>

\* The caller makes the same call a second time, at the same instant.
RepeatUpdateSoftLimitStatus ==
    /\ last.op = "updateSoftLimitStatus"
    /\ last.args.calls = 1
    /\ LET r == updateSoftLimitStatus(accounts, last.args.email, last.modelId,
                                      last.args.fraction, last.args.iso,
                                      SOFT_LIMIT_THRESHOLD, now)
       IN  /\ accounts' = r.accounts
           /\ last' = Call("updateSoftLimitStatus", last.modelId,
                           [last.args EXCEPT !.calls = 2, !.before = accounts],
                           [changed |-> r.changed, isSoftLimited |-> r.isSoftLimited])
    /\ UNCHANGED <<currentIndex, settings, initialized, softLimitEnabled, now>>

CallIsAllSoftLimited ==
    /\ Fresh
    /\ \E modelId \in ModelArgs :
        last' = Call("isAllSoftLimited", modelId, <<>>,
                     isAllSoftLimited(accounts, modelId, now))
    /\ UNCHANGED <<accounts, currentIndex, settings, initialized,
                   softLimitEnabled, now>>

\* clearExpiredLimits of rate-limits.js alone (the hard-limit sweep).
CallClearExpiredLimits ==
    /\ Fresh
    /\ LET r == clearExpiredLimits(accounts, now)
       IN  /\ accounts' = r.accounts
           /\ last' = Call("clearExpiredLimits", NULL, [before |-> accounts],
                           r.cleared)
    /\ UNCHANGED <<currentIndex, settings, initialized, softLimitEnabled, now>>

CallMarkInvalid ==
    /\ Fresh
    /\ \E email \in LimitEmailArgs :
        LET r == markInvalid(accounts, email)
        IN  /\ accounts' = r.accounts
            /\ last' = Call("markInvalid", NULL,
                            [email |-> email, before |-> accounts], r.found)
    /\ UNCHANGED <<currentIndex, settings, initialized, softLimitEnabled, now>>

CallMarkSoftLimited ==
    /\ Fresh
    /\ \E email \in LimitEmailArgs, modelId \in Models,
          fraction \in MarkFractionArgs, iso \in LimitIsoArgs :
        LET r == markSoftLimited(accounts, email, modelId, fraction, iso)
        IN  /\ accounts' = r.accounts
            /\ last' = Call("markSoftLimited", modelId,
                            [email |-> email, fraction |-> fraction, iso |-> iso,
                             before |-> accounts], r.found)
    /\ UNCHANGED <<currentIndex, settings, initialized, softLimitEnabled, now>>

CallClearSoftLimit ==
    /\ Fresh
    /\ \E email \in LimitEmailArgs, modelId \in Models :
        LET r == clearSoftLimit(accounts, email, modelId)
        IN  /\ accounts' = r.accounts
            /\ last' = Call("clearSoftLimit", modelId,
                            [email |-> email, before |-> accounts], r.found)
    /\ UNCHANGED <<currentIndex, settings, initialized, softLimitEnabled, now>>

LimitsNext ==
    \/ CallIsAllRateLimited
    \/ CallGetAvailableAccounts
    \/ CallGetPreferredAccounts
    \/ CallIsSoftLimited
    \/ CallShouldWaitForCurrentAccount
    \/ CallGetMinWaitTimeMs
    \/ Elapse
    \/ CallMarkRateLimited
    \/ CallUpdateSoftLimitStatus
    \/ RepeatUpdateSoftLimitStatus
    \/ CallIsAllSoftLimited
    \/ CallClearExpiredLimits
    \/ CallMarkInvalid
    \/ CallMarkSoftLimited
    \/ CallClearSoftLimit
    \/ (Fresh /\ PickNext)
    \/ (Fresh /\ PickStickyAccount)

LimitsSpec == LimitsInit /\ [][LimitsNext]_vars

(*************** AccountManager applied to drawn pools *********************)
\* The manager's operations applied once to a drawn pool, with what each one
\* hands to the storage collaborator.

\* The quota a probe of the model API yields for the model: the probe throws,
\* the answer holds no quota for the model, or it holds a remaining fraction
\* (null when the API gave none) and a reset time.
Probes ==
    {[outcome |-> o, remainingFraction |-> Nil, resetTime |-> NULL] :
        o \in {"throws", "noQuota"}}
        \cup {[outcome |-> "quota", remainingFraction |-> f, resetTime |-> iso] :
                f \in LimitFractionArgs, iso \in LimitIsoArgs}

\* Mutant: a null remaining fraction is passed on to updateSoftLimitStatus.
checkAndUpdateSoftLimit_PassesNull(accs, email, modelId, probe, softEnabled, threshold, t) ==
    LET skipped == [accounts |-> accs, checked |-> FALSE, isSoftLimited |-> FALSE,
                    remainingFraction |-> Nil, saves |-> 0]
        u == updateSoftLimitStatus(accs, email, modelId, probe.remainingFraction,
                                   probe.resetTime, threshold, t)
    IN  IF ~softEnabled THEN skipped
        ELSE IF probe.outcome = "throws" THEN skipped
        ELSE IF probe.outcome = "noQuota"
        THEN [skipped EXCEPT !.checked = TRUE]
        ELSE [accounts |-> u.accounts, checked |-> TRUE,
              isSoftLimited |-> u.isSoftLimited,
              remainingFraction |-> probe.remainingFraction,
              saves |-> IF u.changed THEN 1 ELSE 0]

\* checkAndUpdateSoftLimit of the model API client, with the save that
\* AccountManager.updateSoftLimitStatus triggers when the status changed.
checkAndUpdateSoftLimit(accs, email, modelId, probe, softEnabled, threshold, t) ==
    LET skipped == [accounts |-> accs, checked |-> FALSE, isSoftLimited |-> FALSE,
                    remainingFraction |-> Nil, saves |-> 0]
        u == updateSoftLimitStatus(accs, email, modelId, probe.remainingFraction,
                                   probe.resetTime, threshold, t)
    IN  IF ~softEnabled THEN skipped
        ELSE IF probe.outcome = "throws" THEN skipped
        ELSE IF probe.outcome = "noQuota" \/ probe.remainingFraction = Nil
        THEN [skipped EXCEPT !.checked = TRUE]
        ELSE [accounts |-> u.accounts, checked |-> TRUE,
              isSoftLimited |-> u.isSoftLimited,
              remainingFraction |-> probe.remainingFraction,
              saves |-> IF u.changed THEN 1 ELSE 0]

\* saveToDisk called n times while the manager's cursor field holds curIndex:
\* the active index handed to saveAccounts by each call.  The index is an
\* argument of the call, read when saveToDisk is called.
saveToDisk(n, curIndex) == [k \in 1..n |-> curIndex]

\* The record of one manager operation: its name, the model id, the other
\* arguments with the accounts and the cursor it found, what it returned, the
\* accounts whose lastUsed it stamped, and the active indices it handed to
\* the storage collaborator.
Done(op, modelId, args, result, stamped, saved) ==
    [op |-> op, modelId |-> modelId, args |-> args, result |-> result,
     stamped |-> stamped, saved |-> saved]

\* The accounts and the cursor an operation found.
Given == [before |-> accounts, index |-> currentIndex]

DoResetAllRateLimits ==
    /\ Fresh
    /\ accounts' = resetAllRateLimits(accounts)
    /\ last' = Done("resetAllRateLimits", NULL, Given, NULL, {}, <<>>)
    /\ UNCHANGED <<currentIndex, settings, initialized, softLimitEnabled, now>>

DoClearExpiredLimits ==
    /\ Fresh
    /\ LET r == ManagerClearExpired(accounts, now)
       IN  /\ accounts' = r.accounts
           /\ last' = Done("clearExpiredLimits", NULL, Given, r.cleared, {},
                           saveToDisk(r.saves, currentIndex))
    /\ UNCHANGED <<currentIndex, settings, initialized, softLimitEnabled, now>>

\* The selector runs, calling onSave, before the manager assigns the cursor.
DoPickNext ==
    /\ Fresh
    /\ \E modelId \in ModelArgs :
        LET r == pickNext(accounts, currentIndex, modelId, softLimitEnabled, now)
        IN  /\ accounts' = r.accounts
            /\ currentIndex' = r.newIndex
            /\ last' = Done("pickNext", modelId, Given,
                            [account |-> r.account, waitMs |-> 0], r.stamped,
                            saveToDisk(r.saves, currentIndex))
    /\ UNCHANGED <<settings, initialized, softLimitEnabled, now>>

DoGetCurrentStickyAccount ==
    /\ Fresh
    /\ \E modelId \in ModelArgs :
        LET r == getCurrentStickyAccount(accounts, currentIndex, modelId, now)
        IN  /\ accounts' = r.accounts
            /\ currentIndex' = r.newIndex
            /\ last' = Done("getCurrentStickyAccount", modelId, Given,
                            [account |-> r.account, waitMs |-> 0], r.stamped,
                            saveToDisk(r.saves, currentIndex))
    /\ UNCHANGED <<settings, initialized, softLimitEnabled, now>>

DoPickStickyAccount ==
    /\ Fresh
    /\ \E modelId \in ModelArgs :
        LET r == pickStickyAccount(accounts, currentIndex, modelId,
                                   softLimitEnabled, now)
        IN  /\ accounts' = r.accounts
            /\ currentIndex' = r.newIndex
            /\ last' = Done("pickStickyAccount", modelId, Given,
                            [account |-> r.account, waitMs |-> r.waitMs],
                            r.stamped, saveToDisk(r.saves, currentIndex))
    /\ UNCHANGED <<settings, initialized, softLimitEnabled, now>>

DoMarkRateLimited ==
    /\ Fresh
    /\ \E email \in LimitEmailArgs, resetMs \in LimitResetMsArgs,
          modelId \in Models :
        /\ accounts' = markRateLimited(accounts, email, resetMs, settings,
                                       modelId, now).accounts
        /\ last' = Done("markRateLimited", modelId,
                        [before |-> accounts, index |-> currentIndex,
                         email |-> email, resetMs |-> resetMs],
                        NULL, {}, saveToDisk(1, currentIndex))
    /\ UNCHANGED <<currentIndex, settings, initialized, softLimitEnabled, now>>

DoMarkInvalid ==
    /\ Fresh
    /\ \E email \in LimitEmailArgs :
        /\ accounts' = markInvalid(accounts, email).accounts
        /\ last' = Done("markInvalid", NULL,
                        [before |-> accounts, index |-> currentIndex,
                         email |-> email],
                        NULL, {}, saveToDisk(1, currentIndex))
    /\ UNCHANGED <<currentIndex, settings, initialized, softLimitEnabled, now>>

DoMarkSoftLimited ==
    /\ Fresh
    /\ \E email \in LimitEmailArgs, modelId \in Models,
          fraction \in MarkFractionArgs, iso \in LimitIsoArgs :
        /\ accounts' = markSoftLimited(accounts, email, modelId, fraction,
                                       iso).accounts
        /\ last' = Done("markSoftLimited", modelId,
                        [before |-> accounts, index |-> currentIndex,
                         email |-> email, fraction |-> fraction, iso |-> iso],
                        NULL, {}, saveToDisk(1, currentIndex))
    /\ UNCHANGED <<currentIndex, settings, initialized, softLimitEnabled, now>>

DoClearSoftLimit ==
    /\ Fresh
    /\ \E email \in LimitEmailArgs, modelId \in Models :
        /\ accounts' = clearSoftLimit(accounts, email, modelId).accounts
        /\ last' = Done("clearSoftLimit", modelId,
                        [before |-> accounts, index |-> currentIndex,
                         email |-> email],
                        NULL, {}, saveToDisk(1, currentIndex))
    /\ UNCHANGED <<currentIndex, settings, initialized, softLimitEnabled, now>>

DoUpdateSoftLimitStatus ==
    /\ Fresh
    /\ \E email \in LimitEmailArgs, modelId \in Models,
          fraction \in LimitFractionArgs, iso \in LimitIsoArgs :
        LET r == updateSoftLimitStatus(accounts, email, modelId, fraction, iso,
                                       SOFT_LIMIT_THRESHOLD, now)
        IN  /\ accounts' = r.accounts
            /\ last' = Done("updateSoftLimitStatus", modelId,
                            [before |-> accounts, index |-> currentIndex,
                             email |-> email, fraction |-> fraction, iso |-> iso],
                            [changed |-> r.changed,
                             isSoftLimited |-> r.isSoftLimited],
                            {}, saveToDisk(IF r.changed THEN 1 ELSE 0, currentIndex))
    /\ UNCHANGED <<currentIndex, settings, initialized, softLimitEnabled, now>>

\* checkAndUpdateSoftLimit for an account and the outcome of its quota probe.
DoCheckAndUpdateSoftLimit ==
    /\ Fresh
    /\ \E email \in LimitEmailArgs, modelId \in Models, probe \in Probes :
        LET r == checkAndUpdateSoftLimit(accounts, email, modelId, probe,
                                         softLimitEnabled, SOFT_LIMIT_THRESHOLD, now)
        IN  /\ accounts' = r.accounts
            /\ last' = Done("checkAndUpdateSoftLimit", modelId,
                            [before |-> accounts, index |-> currentIndex,
                             email |-> email, probe |-> probe],
                            [checked |-> r.checked,
                             isSoftLimited |-> r.isSoftLimited,
                             remainingFraction |-> r.remainingFraction],
                            {}, saveToDisk(r.saves, currentIndex))
    /\ UNCHANGED <<currentIndex, settings, initialized, softLimitEnabled, now>>

ManagerNext ==
    \/ DoResetAllRateLimits
    \/ DoClearExpiredLimits
    \/ DoPickNext
    \/ DoGetCurrentStickyAccount
    \/ DoPickStickyAccount
    \/ DoMarkRateLimited
    \/ DoMarkInvalid
    \/ DoMarkSoftLimited
    \/ DoClearSoftLimit
    \/ DoUpdateSoftLimitStatus
    \/ DoCheckAndUpdateSoftLimit

ManagerSpec == LimitsInit /\ [][ManagerNext]_vars

(****************** consecutive AccountManager.pickNext *******************)
\* A caller that calls pickNext again and again for one model while nothing
\* else touches the pool and the clock stands still.

\* The number of consecutive calls followed.
MaxCalls == Len(Emails) + 1

\* The accounts a pool of up to three may hold: invalid or not; without a
\* hard-limit entry, or with one that runs until instant 2 or until MaxReset;
\* without a soft-limit entry, or soft-limited with no reset time.
RoundAccounts(email) ==
    {[email |-> email, isInvalid |-> inv,
      modelRateLimits |-> h, modelSoftLimits |-> s] :
        inv \in BOOLEAN,
        h \in {<<>>} \cup {[m \in Models |-> [isRateLimited |-> TRUE, resetTime |-> r]] :
                                r \in {2, MaxReset}},
        s \in {<<>>, [m \in Models |->
                        [isSoftLimited |-> TRUE, remainingFraction |-> 1,
                         resetTime |-> Nil]]}}

RoundPools ==
    {<<x>> : x \in RoundAccounts(Emails[1])}
        \cup {<<x, y>> : x \in RoundAccounts(Emails[1]),
                         y \in RoundAccounts(Emails[2])}
        \cup {<<x, y, z>> : x \in RoundAccounts(Emails[1]),
                            y \in RoundAccounts(Emails[2]),
                            z \in RoundAccounts(Emails[3])}

RoundInit ==
    /\ accounts \in RoundPools
    /\ currentIndex \in StoredIndices
    /\ settings = [cooldownDurationMs |-> Nil]
    /\ initialized = TRUE
    /\ softLimitEnabled \in BOOLEAN
    /\ now \in 1..MaxTime
    /\ last = NoResult

\* The record of a run of pickNext calls: the model id, the cursor before the
\* first call and the accounts returned, call by call.
Calls(modelId, index, returned) ==
    [op |-> "pickNext calls", modelId |-> modelId, index |-> index,
     returned |-> returned]

\* AccountManager.pickNext, as the first call of a run or as the next call
\* for the same model.
ConsecutivePickNext ==
    \E modelId \in ModelArgs :
        /\ \/ last = NoResult
           \/ /\ last.op = "pickNext calls"
              /\ last.modelId = modelId
              /\ Len(last.returned) < MaxCalls
        /\ LET r == pickNext(accounts, currentIndex, modelId, softLimitEnabled, now)
               start == IF last = NoResult THEN currentIndex ELSE last.index
               sofar == IF last = NoResult THEN <<>> ELSE last.returned
           IN  /\ accounts' = r.accounts
               /\ currentIndex' = r.newIndex
               /\ last' = Calls(modelId, start, Append(sofar, r.account))
        /\ UNCHANGED <<settings, initialized, softLimitEnabled, now>>

RoundNext == ConsecutivePickNext

RoundSpec == RoundInit /\ [][RoundNext]_vars

(********************* pickNext, one loop step at a time ******************)
\* The two for-loops of pickNext run one iteration per step.

\* Mutant: the index examined is not wrapped around.
ScanIndex_NoWrap(index, i, length) == index + i

\* const idx = (index + i) % accounts.length;
ScanIndex(index, i, length) == (index + i) % length

\* The position of a pickNext call: the model id and the cursor given, the
\* clamped index the scans start from, the loop it is in ("preferred",
\* "usable", or "done" once it has returned), the loop counter i, the indices
\* each of the two loops has examined so far, and the account returned.
Scan(modelId, given, index, phase, i, examined, account) ==
    [op |-> "pickNext scan", modelId |-> modelId, given |-> given,
     index |-> index, phase |-> phase, i |-> i, examined |-> examined,
     account |-> account]

\* pickNext up to its first loop: the sweeps, the availability test, the
\* clamp and the choice of the loop to enter.
EnterPickNext ==
    /\ last = NoResult
    /\ \E modelId \in ModelArgs :
        LET accs == Sweep(accounts, now)
            index == Clamp(accs, currentIndex)
        IN  /\ accounts' = accs
            /\ last' =
                IF Len(getAvailableAccounts(accs, modelId, now)) = 0
                THEN Scan(modelId, currentIndex, currentIndex, "done", 0,
                          <<<<>>, <<>>>>, NULL)
                ELSE IF /\ softLimitEnabled /\ modelId # NULL
                        /\ Len(getPreferredAccounts(accs, modelId, now)) > 0
                THEN Scan(modelId, currentIndex, index, "preferred", 1,
                          <<<<>>, <<>>>>, NULL)
                ELSE Scan(modelId, currentIndex, index, "usable", 1,
                          <<<<>>, <<>>>>, NULL)
    /\ UNCHANGED <<currentIndex, settings, initialized, softLimitEnabled, now>>

\* One iteration of the first loop: return the account at idx when it is
\* preferred, go on otherwise; after the last iteration the second loop.
ExaminePreferred ==
    /\ last.op = "pickNext scan"
    /\ last.phase = "preferred"
    /\ last.i <= Len(accounts)
    /\ LET idx == ScanIndex(last.index, last.i, Len(accounts))
           seen == [last.examined EXCEPT ![1] = Append(@, idx)]
       IN  IF isAccountPreferred(At(accounts, idx), last.modelId, now)
           THEN /\ currentIndex' = idx
                /\ last' = [last EXCEPT !.phase = "done", !.examined = seen,
                                        !.account = At(accounts, idx).email]
           ELSE /\ currentIndex' = currentIndex
                /\ last' = IF last.i + 1 <= Len(accounts)
                           THEN [last EXCEPT !.i = @ + 1, !.examined = seen]
                           ELSE [last EXCEPT !.phase = "usable", !.i = 1,
                                             !.examined = seen]
    /\ UNCHANGED <<accounts, settings, initialized, softLimitEnabled, now>>

\* One iteration of the second loop: return the account at idx when it is
\* usable, go on otherwise; after the last iteration return no account and
\* the cursor given.
ExamineUsable ==
    /\ last.op = "pickNext scan"
    /\ last.phase = "usable"
    /\ last.i <= Len(accounts)
    /\ LET idx == ScanIndex(last.index, last.i, Len(accounts))
           seen == [last.examined EXCEPT ![2] = Append(@, idx)]
       IN  IF isAccountUsable(At(accounts, idx), last.modelId, now)
           THEN /\ currentIndex' = idx
                /\ last' = [last EXCEPT !.phase = "done", !.examined = seen,
                                        !.account = At(accounts, idx).email]
           ELSE /\ currentIndex' = currentIndex
                /\ last' = IF last.i + 1 <= Len(accounts)
                           THEN [last EXCEPT !.i = @ + 1, !.examined = seen]
                           ELSE [last EXCEPT !.phase = "done", !.examined = seen]
    /\ UNCHANGED <<accounts, settings, initialized, softLimitEnabled, now>>

ScanNext ==
    \/ EnterPickNext
    \/ ExaminePreferred
    \/ ExamineUsable

\* The loops are synchronous code: a call that has begun keeps running.
ScanSpec == RoundInit /\ [][ScanNext]_vars /\ WF_vars(ScanNext)

(************* a caller that keeps calling pickStickyAccount **************)
\* The pool from the moment markRateLimited is called no more: a caller goes
\* on calling pickStickyAccount while time passes, accounts may still turn
\* invalid as long as one valid account remains, and soft limits may still
\* be set.

LiveInit ==
    /\ LimitsInit
    /\ settings = [cooldownDurationMs |-> Nil]

\* AccountManager.pickStickyAccount called for the given model.
PickStickyFor(modelId) ==
    LET r == pickStickyAccount(accounts, currentIndex, modelId,
                               softLimitEnabled, now)
    IN  /\ accounts' = r.accounts
        /\ currentIndex' = r.newIndex
        /\ last' = Selected("pickStickyAccount", modelId, r)
        /\ UNCHANGED <<settings, initialized, softLimitEnabled, now>>

\* Time passes, up to the latest reset time a hard limit can hold.
TimePasses ==
    /\ now < MaxReset
    /\ now' = now + 1
    /\ last' = NoResult
    /\ UNCHANGED <<accounts, currentIndex, settings, initialized, softLimitEnabled>>

\* AccountManager.markInvalid for an account that is not the last valid one.
MarkInvalidSparing ==
    \E email \in LimitEmailArgs :
        /\ \E i \in 1..Len(accounts) :
                accounts[i].email # email /\ ~accounts[i].isInvalid
        /\ accounts' = markInvalid(accounts, email).accounts
        /\ last' = NoResult
        /\ UNCHANGED <<currentIndex, settings, initialized, softLimitEnabled, now>>

LiveNext ==
    \/ \E modelId \in ModelArgs : PickStickyFor(modelId)
    \/ TimePasses
    \/ MarkInvalidSparing
    \/ MarkSoftLimited

\* A further pickStickyAccount call for the model would return what the last
\* one returned and change nothing: ~ENABLED <<PickStickyFor(modelId)>>_vars.
Settled(modelId) ==
    LET r == pickStickyAccount(accounts, currentIndex, modelId,
                               softLimitEnabled, now)
    IN  /\ accounts = r.accounts
        /\ currentIndex = r.newIndex
        /\ last = Selected("pickStickyAccount", modelId, r)

\* The caller keeps calling for each model and time keeps passing. The second
\* condition is WF_vars(PickStickyFor(modelId)) with its ENABLED written as
\* the state predicate ~Settled(modelId).
LiveSpec ==
    /\ LiveInit
    /\ [][LiveNext]_vars
    /\ WF_vars(TimePasses)
    /\ \A modelId \in ModelArgs :
          \/ []<>Settled(modelId)
          \/ []<><<PickStickyFor(modelId)>>_vars

(******************** vocabulary of the properties ***********************)
SelectionOps == {"pickNext", "getCurrentStickyAccount", "pickStickyAccount"}

Indices == 0..(Len(accounts) - 1)
InRange == currentIndex \in Indices
EmailAt(i) == accounts[i + 1].email

\* Index i holds a hard-limit entry for model m that is set and unexpired.
HardLimitActiveAt(i, m) ==
    /\ m # NULL
    /\ m \in DOMAIN accounts[i + 1].modelRateLimits
    /\ accounts[i + 1].modelRateLimits[m].isRateLimited
    /\ accounts[i + 1].modelRateLimits[m].resetTime > now

HardAvailableAt(i, m) ==
    ~accounts[i + 1].isInvalid /\ ~HardLimitActiveAt(i, m)

SoftLimitedAt(i, m) ==
    /\ m # NULL
    /\ m \in DOMAIN accounts[i + 1].modelSoftLimits
    /\ accounts[i + 1].modelSoftLimits[m].isSoftLimited
    /\ \/ accounts[i + 1].modelSoftLimits[m].resetTime = Nil
       \/ accounts[i + 1].modelSoftLimits[m].resetTime > now

PreferredAt(i, m) == HardAvailableAt(i, m) /\ ~SoftLimitedAt(i, m)

AvailableSet(m) == {i \in Indices : HardAvailableAt(i, m)}
PreferredSet(m) == {i \in Indices : PreferredAt(i, m)}

\* resetTime - now of the hard limit of index i.
RemainingWait(i, m) == accounts[i + 1].modelRateLimits[m].resetTime - now

\* Forward wrap-around steps from the index after `from` to index i.
FwdSteps(from, i) ==
    (i + Len(accounts) - 1 - (from % Len(accounts))) % Len(accounts)

\* The member of S reached first when scanning forward from `from` + 1.
FirstForward(S, from) ==
    CHOOSE i \in S : \A j \in S : FwdSteps(from, i) <= FwdSteps(from, j)

(******************************* properties ******************************)
\* C1: an account returned by pickNext, getCurrentStickyAccount or
\* pickStickyAccount is not invalid and has no hard limit for the queried
\* model that is set and unexpired.
C1_ReturnedAccountIsUsable ==
    (last.op \in SelectionOps /\ last.account # NULL) =>
        \E i \in Indices :
            /\ EmailAt(i) = last.account
            /\ ~accounts[i + 1].isInvalid
            /\ ~HardLimitActiveAt(i, last.modelId)

\* A selection that started on an unusable account returned another one,
\* with an invalid and a hard-limited account in the pool.
C1_Witness ==
    /\ last.op = "pickStickyAccount"
    /\ last.account # NULL
    /\ last.modelId # NULL
    /\ last.index \in Indices
    /\ ~HardAvailableAt(last.index, last.modelId)
    /\ \E i \in Indices : accounts[i + 1].isInvalid
    /\ \E i \in Indices : HardLimitActiveAt(i, last.modelId)

\* The condition of C2 on the state a call starts in.
C2_Keeps(m) ==
    /\ InRange
    /\ HardAvailableAt(currentIndex, m)
    /\ \/ ~SoftLimitedAt(currentIndex, m)
       \/ ~softLimitEnabled
       \/ m = NULL
       \/ PreferredSet(m) = {}

\* C2: when the account at the cursor is hard-available and is not
\* soft-limited (or soft limiting is off, or no model is given, or no
\* preferred account exists), pickStickyAccount returns that account with
\* waitMs = 0 and leaves the cursor on it; every call made while the
\* condition holds therefore returns the same account.
C2_StickyAccountIsKept ==
    [][\A m \in ModelArgs :
        (last'.op = "pickStickyAccount" /\ last'.modelId = m /\ C2_Keeps(m)) =>
            /\ last'.account = EmailAt(currentIndex)
            /\ last'.waitMs = 0
            /\ currentIndex' = currentIndex]_vars

\* The soft-limited account at the cursor was kept because no preferred
\* account exists, although another hard-available account does.
C2_Witness ==
    /\ last.op = "pickStickyAccount"
    /\ last.index = currentIndex
    /\ InRange
    /\ last.account = EmailAt(currentIndex)
    /\ softLimitEnabled
    /\ SoftLimitedAt(currentIndex, last.modelId)
    /\ PreferredSet(last.modelId) = {}
    /\ AvailableSet(last.modelId) \ {currentIndex} # {}

C3_Pre(m) ==
    /\ softLimitEnabled
    /\ m # NULL
    /\ InRange
    /\ HardAvailableAt(currentIndex, m)
    /\ SoftLimitedAt(currentIndex, m)
    /\ PreferredSet(m) # {}

\* C3: with soft limiting on and a model given, when the account at the
\* cursor is hard-available but soft-limited and a preferred account exists,
\* pickStickyAccount returns the first preferred account in forward
\* wrap-around order from cursor + 1, with waitMs = 0, and the cursor becomes
\* that account's index.
C3_SwitchesToNextPreferred ==
    [][\A m \in ModelArgs :
        (last'.op = "pickStickyAccount" /\ last'.modelId = m /\ C3_Pre(m)) =>
            /\ last'.account = EmailAt(FirstForward(PreferredSet(m), currentIndex))
            /\ last'.waitMs = 0
            /\ currentIndex' = FirstForward(PreferredSet(m), currentIndex)]_vars

\* A switch away from a soft-limited sticky account to a preferred account
\* that is not the preferred account of lowest index.
C3_Witness ==
    /\ last.op = "pickStickyAccount"
    /\ softLimitEnabled
    /\ last.index \in Indices
    /\ HardAvailableAt(last.index, last.modelId)
    /\ SoftLimitedAt(last.index, last.modelId)
    /\ currentIndex # last.index
    /\ InRange
    /\ last.account = EmailAt(currentIndex)
    /\ PreferredAt(currentIndex, last.modelId)
    /\ \E j \in Indices : j < currentIndex /\ PreferredAt(j, last.modelId)

C4_Pre(m) ==
    /\ InRange
    /\ ~HardAvailableAt(currentIndex, m)
    /\ AvailableSet(m) \ {currentIndex} # {}

C5_Pre(m) ==
    /\ InRange
    /\ AvailableSet(m) = {}
    /\ ~accounts[currentIndex + 1].isInvalid
    /\ HardLimitActiveAt(currentIndex, m)

\* C5: when no account is hard-available and the account at the cursor is
\* not invalid and hard-limited with remaining wait w: for
\* 0 < w <= MAX_WAIT_BEFORE_ERROR_MS pickStickyAccount returns no account,
\* waitMs = w and the cursor unchanged; for w > MAX_WAIT_BEFORE_ERROR_MS it
\* returns no account and waitMs = 0.
C5_WaitsOnlyForShortLimits ==
    [][\A m \in ModelArgs :
        (last'.op = "pickStickyAccount" /\ last'.modelId = m /\ C5_Pre(m)) =>
            /\ last'.account = NULL
            /\ RemainingWait(currentIndex, m) <= MAX_WAIT_BEFORE_ERROR_MS =>
                /\ last'.waitMs = RemainingWait(currentIndex, m)
                /\ currentIndex' = currentIndex
            /\ RemainingWait(currentIndex, m) > MAX_WAIT_BEFORE_ERROR_MS =>
                last'.waitMs = 0]_vars

\* Cursor at the first account, hard-limited within the ceiling, the other
\* two invalid: a wait is reported.
C5_Witness ==
    /\ last.op = "pickStickyAccount"
    /\ last.account = NULL
    /\ last.waitMs > 0
    /\ Len(accounts) = 3
    /\ currentIndex = 0
    /\ last.waitMs = RemainingWait(0, last.modelId)
    /\ accounts[2].isInvalid
    /\ accounts[3].isInvalid

\* C6: pickStickyAccount moves the cursor away from the current account
\* only when that account is rate-limited for longer than
\* MAX_WAIT_BEFORE_ERROR_MS, or is invalid, or is soft-limited while a
\* preferred alternative exists.
C6_CursorMovesOnlyWhenDocumented ==
    [][\A m \in ModelArgs :
        (/\ last'.op = "pickStickyAccount" /\ last'.modelId = m
         /\ InRange /\ currentIndex' # currentIndex) =>
            \/ /\ HardLimitActiveAt(currentIndex, m)
               /\ RemainingWait(currentIndex, m) > MAX_WAIT_BEFORE_ERROR_MS
            \/ accounts[currentIndex + 1].isInvalid
            \/ /\ SoftLimitedAt(currentIndex, m)
               /\ PreferredSet(m) \ {currentIndex} # {}]_vars

\* The accounts a pickNext scan may return: the preferred ones when soft
\* limiting applies and one exists, the hard-available ones otherwise.
EligibleSet(m) ==
    IF softLimitEnabled /\ m # NULL /\ PreferredSet(m) # {}
    THEN PreferredSet(m)
    ELSE AvailableSet(m)

\* C7: pickNext returns the eligible account reached in the fewest forward
\* wrap-around steps from currentIndex + 1 (the current index last), and
\* the new index is that account's index.  With accounts A, B, C, the cursor
\* on A and only A hard-limited, it returns B and the cursor becomes 1.
C7_ForwardOrder ==
    [][\A m \in ModelArgs :
        (last'.op = "pickNext" /\ last'.modelId = m) =>
            /\ EligibleSet(m) # {} =>
                /\ last'.account = EmailAt(FirstForward(EligibleSet(m), currentIndex))
                /\ currentIndex' = FirstForward(EligibleSet(m), currentIndex)
            /\ (/\ Len(accounts) = 3 /\ currentIndex = 0
                /\ HardLimitActiveAt(0, m) /\ PreferredAt(1, m) /\ PreferredAt(2, m)) =>
                /\ last'.account = EmailAt(1)
                /\ currentIndex' = 1]_vars

\* pickNext from the middle account returned the last one although the
\* first one was eligible too.
C7_Witness ==
    /\ last.op = "pickNext"
    /\ Len(accounts) = 3
    /\ last.index = 1
    /\ currentIndex = 2
    /\ last.account = EmailAt(2)
    /\ 0 \in EligibleSet(last.modelId)
    /\ 1 \in EligibleSet(last.modelId)

\* C8: pickNext returns no account, and the cursor it was given, exactly
\* when no account is hard-available; when every hard-available account is
\* soft-limited and soft limiting is on, it returns the first hard-available
\* account in forward order.
C8_NullOnlyWhenNoneAvailable ==
    [][\A m \in ModelArgs :
        (last'.op = "pickNext" /\ last'.modelId = m) =>
            /\ last'.account = NULL <=> AvailableSet(m) = {}
            /\ last'.account = NULL => currentIndex' = currentIndex
            /\ (/\ softLimitEnabled /\ m # NULL /\ AvailableSet(m) # {}
                /\ \A i \in AvailableSet(m) : SoftLimitedAt(i, m)) =>
                last'.account = EmailAt(FirstForward(AvailableSet(m), currentIndex))]_vars

\* Every account of a three-account pool is hard-available and soft-limited,
\* soft limiting is on, and pickNext returned the account after the cursor.
C8_Witness ==
    /\ last.op = "pickNext"
    /\ softLimitEnabled
    /\ last.modelId # NULL
    /\ Len(accounts) = 3
    /\ \A i \in Indices :
        HardAvailableAt(i, last.modelId) /\ SoftLimitedAt(i, last.modelId)
    /\ last.index = 0
    /\ last.account = EmailAt(1)

\* C9: with soft limiting on and a model given, pickNext returns a
\* soft-limited account only if no preferred account exists in the pool.
C9_SoftLimitedOnlyAsFallback ==
    (/\ last.op = "pickNext" /\ softLimitEnabled /\ last.modelId # NULL
     /\ last.account # NULL) =>
        \A i \in Indices :
            (EmailAt(i) = last.account /\ SoftLimitedAt(i, last.modelId)) =>
                PreferredSet(last.modelId) = {}

\* pickNext passed over the hard-available but soft-limited account after
\* the cursor and returned the preferred account behind it.
C9_Witness ==
    /\ last.op = "pickNext"
    /\ softLimitEnabled
    /\ last.modelId # NULL
    /\ Len(accounts) = 3
    /\ last.index = 0
    /\ HardAvailableAt(1, last.modelId)
    /\ SoftLimitedAt(1, last.modelId)
    /\ last.account = EmailAt(2)
    /\ currentIndex = 2

\* C10: the cursor is a valid index into the account array whenever the
\* array is not empty.
C10_CursorIsValidIndex ==
    Len(accounts) > 0 => currentIndex \in Indices

\* C11: for a non-empty pool and a given model id, isAllRateLimited is true
\* exactly when getAvailableAccounts, evaluated on the same pool at the same
\* instant, is empty.
C11_AllLimitedIffNoneAvailable ==
    (last.op = "isAllRateLimited" /\ last.modelId # NULL /\ Len(accounts) > 0) =>
        (last.result <=> Len(getAvailableAccounts(accounts, last.modelId, now)) = 0)

\* isAllRateLimited answered true for a pool of one invalid account without
\* any limit entry and one account with an unexpired hard limit.
C11_Witness ==
    /\ last.op = "isAllRateLimited"
    /\ last.modelId # NULL
    /\ last.result = TRUE
    /\ Len(accounts) = 2
    /\ accounts[1].isInvalid
    /\ accounts[1].modelRateLimits = <<>>
    /\ ~accounts[2].isInvalid
    /\ HardLimitActiveAt(1, last.modelId)

\* C12 as stated: isAllRateLimited without a model id returns false for
\* every account sequence.
C12_NoModelNeverAllLimited ==
    (last.op = "isAllRateLimited" /\ last.modelId = NULL) => last.result = FALSE

\* C12, amended: isAllRateLimited without a model id returns false for
\* every non-empty account sequence (for the empty sequence it returns true).
C12_NoModelNeverAllLimitedNonEmpty ==
    (last.op = "isAllRateLimited" /\ last.modelId = NULL) =>
        (last.result = (Len(accounts) = 0))

\* Without a model id isAllRateLimited answered false although every account
\* of the pool is invalid.
C12_Witness ==
    /\ last.op = "isAllRateLimited"
    /\ last.modelId = NULL
    /\ last.result = FALSE
    /\ Len(accounts) = 2
    /\ \A i \in Indices : accounts[i + 1].isInvalid

\* The indices of the accounts that are not invalid.
NonInvalid == {i \in Indices : ~accounts[i + 1].isInvalid}

\* A returned list of emails holds exactly the accounts of the index set S.
ListsExactly(result, S) ==
    /\ Len(result) = Cardinality(S)
    /\ \A i \in S : \E k \in 1..Len(result) : result[k] = EmailAt(i)

\* The cursor a selection was given, clamped as the selections clamp it.
GivenCursor == IF last.index >= Len(accounts) THEN 0 ELSE last.index

\* C13: without a model id nothing is treated as rate-limited or
\* soft-limited, whatever entries the accounts hold: getAvailableAccounts
\* and getPreferredAccounts return exactly the accounts that are not
\* invalid, isSoftLimited is false, shouldWaitForCurrentAccount does not
\* recommend waiting, pickNext returns the first account in forward order
\* that is not invalid, and pickStickyAccount the account at the cursor when
\* it is not invalid and otherwise the first one in forward order that is
\* not (no account only when all are invalid), with no wait.
C13_NoModelNoLimits ==
    last.modelId = NULL =>
        /\ last.op \in {"getAvailableAccounts", "getPreferredAccounts"} =>
            ListsExactly(last.result, NonInvalid)
        /\ last.op = "isSoftLimited" => last.result = FALSE
        /\ last.op = "shouldWaitForCurrentAccount" =>
            (~last.result.shouldWait /\ last.result.waitMs = 0)
        /\ last.op = "pickNext" =>
            IF NonInvalid = {} THEN last.account = NULL
            ELSE last.account = EmailAt(FirstForward(NonInvalid, GivenCursor))
        /\ last.op = "pickStickyAccount" =>
            /\ last.waitMs = 0
            /\ IF NonInvalid = {} THEN last.account = NULL
               ELSE IF GivenCursor \in NonInvalid
               THEN last.account = EmailAt(GivenCursor)
               ELSE last.account = EmailAt(FirstForward(NonInvalid, GivenCursor))

\* pickNext without a model id returned an account that holds an unexpired
\* hard limit and a soft limit for a model.
C13_Witness ==
    /\ last.op = "pickNext"
    /\ last.modelId = NULL
    /\ \E i \in Indices, m \in Models :
        /\ EmailAt(i) = last.account
        /\ HardLimitActiveAt(i, m)
        /\ SoftLimitedAt(i, m)

\* The account at index i of the array accs is returned by
\* getAvailableAccounts for no model argument at instant t.
AbsentFromAvailable(accs, i, t) ==
    \A m \in ModelArgs :
        Len(SelectSeq(getAvailableAccounts(accs, m, t),
                      LAMBDA a : a.email = accs[i + 1].email)) = 0

\* C14: an account that is invalid is absent from getAvailableAccounts for
\* every model argument, and across every operation (sweeps,
\* resetAllRateLimits, the marks, the soft-limit updates, the selections,
\* time passing) it keeps its place in the array and stays invalid; so it is
\* invalid and absent in every later state.
C14_InvalidIsTerminal ==
    [][\A i \in Indices :
        accounts[i + 1].isInvalid =>
            /\ AbsentFromAvailable(accounts, i, now)
            /\ Len(accounts') = Len(accounts)
            /\ accounts'[i + 1].email = accounts[i + 1].email
            /\ accounts'[i + 1].isInvalid]_vars

\* The cursor was on an invalid account whose hard-limit entry has been
\* cleared, and pickStickyAccount returned another account.
C14_Witness ==
    /\ last.op = "pickStickyAccount"
    /\ last.index \in Indices
    /\ accounts[last.index + 1].isInvalid
    /\ \E m \in Models :
        /\ m \in DOMAIN accounts[last.index + 1].modelRateLimits
        /\ ~accounts[last.index + 1].modelRateLimits[m].isRateLimited
    /\ last.account # NULL
    /\ last.account # EmailAt(last.index)

\* C15: a second updateSoftLimitStatus call with the same arguments, made
\* right after the first, returns changed = false and leaves the accounts as
\* the first call left them.
C15_UpdateIsIdempotent ==
    (last.op = "updateSoftLimitStatus" /\ last.args.calls = 2) =>
        /\ last.result.changed = FALSE
        /\ accounts = last.args.before

\* C16: after updateSoftLimitStatus on a known account with a remaining
\* fraction f that is not null, the account is soft-limited for the model
\* exactly when 0 <= f < threshold (f equal to the threshold is not, f just
\* below it is), and the returned isSoftLimited flag equals that status.
C16_SoftLimitedIffBelowThreshold ==
    (/\ last.op = "updateSoftLimitStatus"
     /\ last.args.fraction # Nil
     /\ FindIndex(accounts, last.args.email) # -1) =>
        LET i == FindIndex(accounts, last.args.email)
            below == last.args.fraction >= 0
                        /\ last.args.fraction < SOFT_LIMIT_THRESHOLD
        IN  /\ SoftLimitedAt(i, last.modelId) <=> below
            /\ last.result.isSoftLimited <=> SoftLimitedAt(i, last.modelId)

\* C17: updateSoftLimitStatus with a null remaining fraction returns
\* changed = false and leaves the accounts unchanged, whether or not the
\* account is soft-limited for the model.
C17_NullFractionIsNoOp ==
    (last.op = "updateSoftLimitStatus" /\ last.args.fraction = Nil) =>
        /\ last.result.changed = FALSE
        /\ accounts = last.args.before

\* Every account is limited for model m: the pool is empty, or a model is
\* given and each account is invalid or holds an unexpired hard limit.
AllLimited(m) ==
    \/ Len(accounts) = 0
    \/ m # NULL /\ \A i \in Indices : ~HardAvailableAt(i, m)

\* The strictly positive resetTime - now of the hard-limit entries for m.
PositiveWaits(m) ==
    IF m = NULL THEN {}
    ELSE {RemainingWait(i, m) : i \in {j \in Indices : HardLimitActiveAt(j, m)}}

C19_AvailableAfterMinWait ==
    (last.op = "elapsed" /\ last.modelId # NULL /\ Len(accounts) > 0) =>
        AvailableSet(last.modelId) # {}

\* What C20 says the cooldown is: resetMs when it is not null, else the
\* configured cooldown when it is set, else the default.
C20_NullishCooldown(resetMs) ==
    IF resetMs # Nil THEN resetMs
    ELSE IF settings.cooldownDurationMs # Nil THEN settings.cooldownDurationMs
    ELSE DEFAULT_COOLDOWN_MS

\* The cooldown with a 0 treated as not given.
C20_FalsyCooldown(resetMs) ==
    IF resetMs # Nil /\ resetMs # 0 THEN resetMs
    ELSE IF settings.cooldownDurationMs # Nil /\ settings.cooldownDurationMs # 0
    THEN settings.cooldownDurationMs
    ELSE DEFAULT_COOLDOWN_MS

\* After markRateLimited found the email: the model's entry of that account
\* is {isRateLimited: true, resetTime: now + d}, whatever it was before, and
\* nothing else has changed.
C20_Marked(d) ==
    LET i == FindIndex(accounts, last.args.email)
        before == last.args.before
    IN  /\ i # -1
        /\ Len(accounts) = Len(before)
        /\ last.modelId \in DOMAIN accounts[i + 1].modelRateLimits
        /\ accounts[i + 1].modelRateLimits[last.modelId] =
                [isRateLimited |-> TRUE, resetTime |-> now + d]
        /\ accounts[i + 1].isInvalid = before[i + 1].isInvalid
        /\ accounts[i + 1].modelSoftLimits = before[i + 1].modelSoftLimits
        /\ \A j \in Indices \ {i} : accounts[j + 1] = before[j + 1]

\* C20 as stated: markRateLimited on a known email sets the model's entry
\* to isRateLimited = true and resetTime = now + d, with d = resetMs whenever
\* resetMs is not null (0 included), else settings.cooldownDurationMs when
\* set, else the default cooldown.
C20_ResetMsZeroIsGiven ==
    (last.op = "markRateLimited" /\ last.result = TRUE) =>
        C20_Marked(C20_NullishCooldown(last.args.resetMs))

\* C20, amended: d is resetMs when resetMs is neither null nor 0, else
\* settings.cooldownDurationMs when it is set and not 0, else the default
\* cooldown; the entry replaces any prior entry for the model.
C20_ResetTimeFromFirstNonZero ==
    (last.op = "markRateLimited" /\ last.result = TRUE) =>
        C20_Marked(C20_FalsyCooldown(last.args.resetMs))

\* markRateLimited with resetMs = 0 and a configured cooldown of 2 replaced
\* an unexpired entry by one that resets at now + 2.
C20_Witness ==
    /\ last.op = "markRateLimited"
    /\ last.result = TRUE
    /\ last.args.resetMs = 0
    /\ settings.cooldownDurationMs = 2
    /\ \E i \in Indices :
        /\ EmailAt(i) = last.args.email
        /\ last.modelId \in DOMAIN last.args.before[i + 1].modelRateLimits
        /\ last.args.before[i + 1].modelRateLimits[last.modelId].isRateLimited
        /\ last.args.before[i + 1].modelRateLimits[last.modelId].resetTime # now + 2
        /\ accounts[i + 1].modelRateLimits[last.modelId].resetTime = now + 2

\* The operations of rate-limits.js that look an account up by email.
EmailOps ==
    {"markRateLimited", "markInvalid", "markSoftLimited", "clearSoftLimit",
     "updateSoftLimitStatus"}

\* C21: markRateLimited, markInvalid, markSoftLimited, clearSoftLimit and
\* updateSoftLimitStatus, given an email that is not in the pool, leave every
\* account record and the cursor unchanged and report failure: false, or
\* changed = false with isSoftLimited = false.
C21_UnknownEmailIsNoOp ==
    [][(/\ last'.op \in EmailOps
        /\ \A i \in Indices : EmailAt(i) # last'.args.email) =>
            /\ accounts' = accounts
            /\ currentIndex' = currentIndex
            /\ IF last'.op = "updateSoftLimitStatus"
               THEN last'.result = [changed |-> FALSE, isSoftLimited |-> FALSE]
               ELSE last'.result = FALSE]_vars

\* markInvalid was given an email that the one-account pool does not hold:
\* it returned false and the account of the pool is still not invalid.
C21_Witness ==
    /\ last.op = "markInvalid"
    /\ Len(accounts) = 1
    /\ EmailAt(0) # last.args.email
    /\ last.result = FALSE
    /\ ~accounts[1].isInvalid

\* C24: isAllSoftLimited(model) is true exactly when at least one account is
\* hard-available for the model and every hard-available account is
\* soft-limited for it; it is false when no account is hard-available, the
\* empty pool included, and false when no model is given.
C24_AllSoftLimited ==
    last.op = "isAllSoftLimited" =>
        (last.result <=>
            /\ last.modelId # NULL
            /\ AvailableSet(last.modelId) # {}
            /\ \A i \in AvailableSet(last.modelId) :
                    SoftLimitedAt(i, last.modelId))

\* The hard-limit entries of the account sequence accs that are set and whose
\* reset time is not later than t.
ExpiredEntries(accs, t) ==
    {<<i, m>> \in (1..Len(accs)) \X Models :
        /\ m \in DOMAIN accs[i].modelRateLimits
        /\ accs[i].modelRateLimits[m].isRateLimited
        /\ accs[i].modelRateLimits[m].resetTime <= t}

\* C26: clearExpiredLimits resets to (isRateLimited = false, resetTime = null)
\* exactly the hard-limit entries that are set with resetTime <= now, leaves
\* every other entry and field untouched and returns the number reset; the
\* sweep changes neither getAvailableAccounts nor isAllRateLimited, for any
\* model, at that instant.
C26_SweepClearsExactlyExpired ==
    last.op = "clearExpiredLimits" =>
        LET before == last.args.before
        IN  /\ Len(accounts) = Len(before)
            /\ \A i \in 1..Len(before) :
                /\ [accounts[i] EXCEPT !.modelRateLimits =
                        before[i].modelRateLimits] = before[i]
                /\ DOMAIN accounts[i].modelRateLimits =
                        DOMAIN before[i].modelRateLimits
                /\ \A m \in DOMAIN before[i].modelRateLimits :
                    accounts[i].modelRateLimits[m] =
                        IF <<i, m>> \in ExpiredEntries(before, now)
                        THEN [isRateLimited |-> FALSE, resetTime |-> Nil]
                        ELSE before[i].modelRateLimits[m]
            /\ last.result = Cardinality(ExpiredEntries(before, now))
            /\ \A m \in ModelArgs :
                /\ getAvailableAccounts(accounts, m, now) =
                        [k \in 1..Len(getAvailableAccounts(before, m, now)) |->
                            accounts[FindIndex(before,
                                getAvailableAccounts(before, m, now)[k].email) + 1]]
                /\ isAllRateLimited(accounts, m, now) =
                        isAllRateLimited(before, m, now)

\* The sweep ran over two accounts: it reset the entry of the first, which
\* had expired, and kept the entry of the second, which is still running.
C26_Witness ==
    /\ last.op = "clearExpiredLimits"
    /\ Len(accounts) = 2
    /\ last.result = 1
    /\ \A i \in 1..2 : "m" \in DOMAIN accounts[i].modelRateLimits
    /\ last.args.before[1].modelRateLimits["m"].isRateLimited
    /\ ~accounts[1].modelRateLimits["m"].isRateLimited
    /\ accounts[1].modelRateLimits["m"].resetTime = Nil
    /\ accounts[2].modelRateLimits["m"].isRateLimited
    /\ accounts[2].modelRateLimits["m"].resetTime > now

\* The operation just recorded was given a probe outcome, a setting or a
\* quota with which checkAndUpdateSoftLimit has nothing to apply.
NothingToApply ==
    \/ ~softLimitEnabled
    \/ last.args.probe.outcome \in {"throws", "noQuota"}
    \/ last.args.probe.remainingFraction = Nil

\* C23: checkAndUpdateSoftLimit changes no account record, leaves the cursor
\* alone and triggers no save when soft limiting is disabled, when the quota
\* probe throws, or when the probe holds no quota or a null remaining fraction
\* for the model; it then reports isSoftLimited = false with a null fraction,
\* and checked = false exactly when it was disabled or the probe threw.
C23_FailedProbeChangesNothing ==
    (last.op = "checkAndUpdateSoftLimit" /\ NothingToApply) =>
        /\ accounts = last.args.before
        /\ currentIndex = last.args.index
        /\ last.saved = <<>>
        /\ last.result.isSoftLimited = FALSE
        /\ last.result.remainingFraction = Nil
        /\ last.result.checked <=>
                (softLimitEnabled /\ last.args.probe.outcome # "throws")

\* With soft limiting enabled the probe gave a null remaining fraction for an
\* account that is soft-limited for the model, and the soft limit is still
\* there.
C23_Witness ==
    /\ last.op = "checkAndUpdateSoftLimit"
    /\ softLimitEnabled
    /\ last.args.probe.outcome = "quota"
    /\ last.args.probe.remainingFraction = Nil
    /\ last.result.checked
    /\ \E i \in Indices :
        /\ EmailAt(i) = last.args.email
        /\ SoftLimitedAt(i, last.modelId)

\* C22: every operation of the AccountManager that changes an account record
\* or the cursor, or stamps lastUsed, calls saveToDisk before it returns.
C22_EveryChangeIsSaved ==
    [][(\/ accounts' # accounts
        \/ currentIndex' # currentIndex
        \/ last'.stamped # {}) => Len(last'.saved) >= 1]_vars

\* C27: after resetAllRateLimits every hard-limit entry of every account is
\* (isRateLimited = false, resetTime = null) whatever its reset time was, so
\* every account that is not invalid is hard-available for every model;
\* isInvalid flags, soft-limit entries and the cursor are unchanged.
C27_ResetClearsEveryHardLimit ==
    last.op = "resetAllRateLimits" =>
        LET before == last.args.before
        IN  /\ Len(accounts) = Len(before)
            /\ currentIndex = last.args.index
            /\ \A i \in 1..Len(before) :
                /\ [accounts[i] EXCEPT !.modelRateLimits =
                        before[i].modelRateLimits] = before[i]
                /\ DOMAIN accounts[i].modelRateLimits =
                        DOMAIN before[i].modelRateLimits
                /\ \A m \in DOMAIN accounts[i].modelRateLimits :
                    accounts[i].modelRateLimits[m] =
                        [isRateLimited |-> FALSE, resetTime |-> Nil]
            /\ \A m \in ModelArgs : AvailableSet(m) = NonInvalid

\* resetAllRateLimits cleared a hard limit that had not expired, on a pool
\* that also holds an invalid account with a soft limit, which it kept.
C27_Witness ==
    /\ last.op = "resetAllRateLimits"
    /\ Len(accounts) = 2
    /\ "m" \in DOMAIN last.args.before[1].modelRateLimits
    /\ last.args.before[1].modelRateLimits["m"].isRateLimited
    /\ last.args.before[1].modelRateLimits["m"].resetTime > now
    /\ ~accounts[1].modelRateLimits["m"].isRateLimited
    /\ accounts[2].isInvalid
    /\ SoftLimitedAt(1, "m")

\* C28: when a selection through the AccountManager changes the cursor, the
\* active index handed to the storage collaborator by the save triggered
\* during that selection is the manager's cursor after the selection
\* (stated for selections that start from a cursor inside the pool).
C28_SavedIndexIsNewCursor ==
    (/\ last.op \in SelectionOps
     /\ last.args.index \in Indices
     /\ currentIndex # last.args.index) =>
        \A k \in 1..Len(last.saved) : last.saved[k] = currentIndex

\* The hard-limit entry of model m at position i of the next state is the
\* entry the current state holds there.
EntryKept(i, m) ==
    /\ i <= Len(accounts)
    /\ m \in DOMAIN accounts[i].modelRateLimits
    /\ accounts'[i].modelRateLimits[m] = accounts[i].modelRateLimits[m]

C29_OneStampOneSave ==
    last.op \in SelectionOps =>
        /\ last.stamped \subseteq {last.account}
        /\ last.saves <= 1
        /\ last.account = NULL => (last.stamped = {} /\ last.saves = 0)

\* C30: every result of pickStickyAccount satisfies: a returned account comes
\* with waitMs = 0 and is the account at the new index; a positive waitMs
\* comes with no account; and no account with waitMs = 0 means that no account
\* of the pool is hard-available for the model.
C30_StickyResultShape ==
    last.op = "pickStickyAccount" =>
        /\ last.account # NULL =>
            /\ last.waitMs = 0
            /\ InRange
            /\ EmailAt(currentIndex) = last.account
        /\ last.waitMs > 0 => last.account = NULL
        /\ (last.account = NULL /\ last.waitMs = 0) =>
                AvailableSet(last.modelId) = {}

\* pickStickyAccount left the soft-limited account at the cursor for the
\* preferred account two places on, and the cursor is on that account.
C30_Witness ==
    /\ last.op = "pickStickyAccount"
    /\ Len(accounts) = 3
    /\ last.index = 0
    /\ SoftLimitedAt(0, last.modelId)
    /\ HardAvailableAt(0, last.modelId)
    /\ currentIndex = 2
    /\ last.account = EmailAt(2)
    /\ last.waitMs = 0

\* The pools that differ from accs in their modelSoftLimits entries only.
SoftVariants(accs) ==
    {[i \in 1..Len(accs) |-> [accs[i] EXCEPT !.modelSoftLimits = f[i]]] :
        f \in [1..Len(accs) -> SoftEntries]}

\* C31: with soft limiting disabled, the account, the wait and the new cursor
\* of pickNext and of pickStickyAccount are those the same call yields on
\* every pool that differs only in its modelSoftLimits entries, from the same
\* cursor, for the same model, at the same time.
C31_DisabledSoftLimitsAreIgnored ==
    [][(last'.op \in {"pickNext", "pickStickyAccount"} /\ ~softLimitEnabled) =>
        \A v \in SoftVariants(accounts) :
            LET r == IF last'.op = "pickNext"
                     THEN pickNext(v, currentIndex, last'.modelId, FALSE, now)
                     ELSE pickStickyAccount(v, currentIndex, last'.modelId,
                                            FALSE, now)
            IN  /\ r.account = last'.result.account
                /\ r.waitMs = last'.result.waitMs
                /\ r.newIndex = currentIndex']_vars

\* With soft limiting disabled pickNext returned the soft-limited account
\* after the cursor although the account at the cursor is preferred.
C31_Witness ==
    /\ last.op = "pickNext"
    /\ ~softLimitEnabled
    /\ last.modelId # NULL
    /\ Len(accounts) = 2
    /\ last.args.index = 0
    /\ PreferredAt(0, last.modelId)
    /\ SoftLimitedAt(1, last.modelId)
    /\ last.result.account = EmailAt(1)
    /\ currentIndex = 1

\* The index of the account with the given email.
IndexOf(email) == CHOOSE i \in Indices : EmailAt(i) = email

\* The cursor a run of calls starts from: the cursor given, or 0 when that
\* lies beyond the pool.
RunStart == IF last.index \in Indices THEN last.index ELSE 0

\* C32: when k >= 1 accounts are eligible for a model (the preferred ones
\* when soft limiting applies and one exists, the hard-available ones
\* otherwise) and nothing but pickNext touches the pool, consecutive
\* AccountManager.pickNext calls return eligible accounts in forward cursor
\* order, the first k calls return each eligible account exactly once, and
\* call k + 1 returns the account of the first call.
C32_RoundRobin ==
    (last.op = "pickNext calls" /\ EligibleSet(last.modelId) # {}) =>
        LET E == EligibleSet(last.modelId)
            k == Cardinality(E)
            n == Len(last.returned)
        IN  /\ \A j \in 1..n : \E i \in E : last.returned[j] = EmailAt(i)
            /\ last.returned[1] = EmailAt(FirstForward(E, RunStart))
            /\ \A j \in 1..(n - 1) :
                last.returned[j + 1] =
                    EmailAt(FirstForward(E, IndexOf(last.returned[j])))
            /\ \A i, j \in 1..n : (i < j /\ j <= k) =>
                    last.returned[i] # last.returned[j]
            /\ n >= k => {last.returned[j] : j \in 1..k} = {EmailAt(i) : i \in E}
            /\ n > k => last.returned[k + 1] = last.returned[1]

\* Four calls starting at the middle account of three eligible ones returned
\* the third, the first, the second and the third again.
C32_Witness ==
    /\ last.op = "pickNext calls"
    /\ Len(accounts) = 3
    /\ EligibleSet(last.modelId) = {0, 1, 2}
    /\ last.index = 1
    /\ last.returned = <<EmailAt(2), EmailAt(0), EmailAt(1), EmailAt(2)>>

\* The sequence s of examined indices is a forward walk from the index after
\* the start: position j holds the index j places on, wrapped around, so no
\* index of the pool occurs twice and none lies outside it.
ForwardWalk(s) ==
    /\ Len(s) <= Len(accounts)
    /\ \A j \in 1..Len(s) :
        /\ s[j] \in Indices
        /\ s[j] = (last.index + j) % Len(accounts)
    /\ \A i, j \in 1..Len(s) : i # j => s[i] # s[j]

\* C34, safety: each of the two scans of pickNext examines the indices in
\* forward wrap-around order from the start, every index of the pool at most
\* once; a scan that ends without returning has examined every index; the
\* call examines at most twice the length of the pool.
C34_EachScanIsOneCycle ==
    last.op = "pickNext scan" =>
        /\ ForwardWalk(last.examined[1])
        /\ ForwardWalk(last.examined[2])
        /\ (last.phase = "usable" /\ last.examined[1] # <<>>) =>
                {last.examined[1][j] : j \in 1..Len(last.examined[1])} = Indices
        /\ (last.phase = "done" /\ last.account = NULL
                /\ last.examined[2] # <<>>) =>
                {last.examined[2][j] : j \in 1..Len(last.examined[2])} = Indices
        /\ Len(last.examined[1]) + Len(last.examined[2]) <= 2 * Len(accounts)

\* C34: from any starting cursor each forward scan of pickNext covers one
\* wrap-around cycle and examines every index at most once, and pickNext
\* always terminates, after at most two scans of the sequence.
C34_PickNextTerminates ==
    /\ []C34_EachScanIsOneCycle
    /\ (last.op = "pickNext scan") ~> (last.op = "pickNext scan" /\ last.phase = "done")

\* Started on the first of three accounts, the second loop went once round
\* the pool and found the account at the cursor last.
C34_Witness ==
    /\ last.op = "pickNext scan"
    /\ last.phase = "done"
    /\ Len(accounts) = 3
    /\ last.index = 0
    /\ last.examined[2] = <<1, 2, 0>>
    /\ last.account = EmailAt(0)
    /\ currentIndex = 0

\* C33: when the pool holds an account that is not invalid and is never
\* marked invalid, and markRateLimited is called no more, a caller that keeps
\* calling pickStickyAccount while time passes eventually receives an
\* account, for the model as well as without a model.
C33_NoPermanentExhaustion ==
    \A m \in ModelArgs :
        (\E i \in Indices : ~accounts[i + 1].isInvalid) ~>
            (/\ last.op = "pickStickyAccount"
             /\ last.modelId = m
             /\ last.account # NULL)

\* Time has passed beyond every instant the pool could start at, and
\* pickStickyAccount returned, for the model, the only valid account, whose
\* hard-limit entry the sweep has cleared.
C33_Witness ==
    /\ last.op = "pickStickyAccount"
    /\ last.modelId = "m"
    /\ now = MaxReset
    /\ Len(accounts) = 2
    /\ accounts[1].isInvalid
    /\ last.account = EmailAt(1)
    /\ "m" \in DOMAIN accounts[2].modelRateLimits
    /\ accounts[2].modelRateLimits["m"] = [isRateLimited |-> FALSE, resetTime |-> Nil]

====
